---- MODULE Spec2Model ----
(***************************************************************************)
(* Model of the maritime route planner (yash27007/ship-routing, backend).  *)
(*                                                                         *)
(* Coordinates are integers in arc-minutes (1/60 degree), so that one     *)
(* unit of planar distance is one nautical mile, as in the planners'       *)
(* "degrees * 60" conversion.  Real-valued quantities (square roots,       *)
(* costs) are fixed-point integers with FSCALE units per nautical mile;    *)
(* +infinity is the saturating value INF.  Points on a segment are exact   *)
(* rationals <<latN, lonN>> over a denominator den.                        *)
(***************************************************************************)
EXTENDS Integers, Sequences, FiniteSets, TLC

VARIABLES
    pc,               \* position of the request being served
    err,              \* exception raised by the request ("" when none)
    request,          \* plan_route: the coordinates received
    current_month,    \* datetime.utcnow().month while the request is served
    start, goal,      \* plan_route: endpoints after port snapping
    max_iterations,   \* plan_route: adaptive iteration budget
    step_size_nm,     \* plan_route: adaptive step size
    tree_start,       \* HybridBidirectionalRRTStar.tree_start
    tree_goal,        \* HybridBidirectionalRRTStar.tree_goal
    connection_point, \* HybridBidirectionalRRTStar.connection_point
    best_path_cost,   \* HybridBidirectionalRRTStar.best_path_cost
    iteration,        \* loop counter of HybridBidirectionalRRTStar.plan
    has_grid,         \* hasattr(self, "_grid") of the sampling planner
    waypoints,        \* plan_route: waypoints of the planner that ran last
    planner,          \* plan_route: the planner invoked last
    result,           \* what plan_route returned (route and metrics)
    prev_request,     \* history: the request served before this one
    prev_result,      \* history: what plan_route returned for it
    ds,               \* the DStar instance: nodes, open_list, parameters
    ds_iterations,    \* loop counter of DStar._compute_shortest_path
    ds_caller,        \* who runs the D* loop: plan_route, plan or replan
    ds_path,          \* what the last plan() / replan() returned
    ds_plan_path,     \* what plan() returned
    ds_changed,       \* the argument of the last replan()
    ds_calls,         \* number of plan() / replan() calls completed
    level1_cells,     \* OceanGrid(level=1).cells: type, cost, weather_factor
    dynamic_hazards,  \* HazardDetectionService.dynamic_hazards
    ev,               \* the frame of the evaluate_route_hazards call in progress
    voyage,           \* the voyage estimate last returned by estimate_voyage_fuel
    land_query,       \* the point last asked of is_point_on_land, and the answer
    weather_service,  \* the RealTimeWeatherService singleton: built or not, and its OpenWeatherMap key
    weather_cache,    \* the cache of each provider: key -> (cached_time, data)
    now,              \* datetime.utcnow(), seconds
    weather_call,     \* the last RealTimeWeatherService.get_weather_point call and its result
    grid_cache,       \* GridCache._grid_level1, _hazard_service (by the grid it holds), _initialized
    grids_built,      \* Level-1 OceanGrid instances constructed since the last clear_cache
    callers,          \* where each request stands inside GridCache
    astar             \* the MaritimeAStar instance and the frame of its plan() call

\* ---------------------------------------------------------------------
\* Bounds of the model (not program constants)
\* ---------------------------------------------------------------------
\* cap on the sampling planner's iteration budget (plan_route asks for
\* 150..400)
MaxIterations == 1
\* cap on the iteration budget of a D* planner
MaxDStarIterations == 6
\* the rows and columns of the Level-2 ocean grid that are built: rows
\* GridFirstRow .. GridFirstRow + GridRows and columns GridFirstCol ..
\* GridFirstCol + GridCols of the lattice (which has millions of cells)
GridFirstRow == 780
GridRows == 0
GridFirstCol == 2525
GridCols == 0
\* number of replan() calls made on one DStar instance
MaxReplans == 1

\* ---------------------------------------------------------------------
\* Fixed-point arithmetic
\* ---------------------------------------------------------------------
FSCALE == 100
INF == 1000000000

Abs(x) == IF x < 0 THEN -x ELSE x
Min(a, b) == IF a <= b THEN a ELSE b
Max(a, b) == IF a >= b THEN a ELSE b

\* float addition with +infinity absorbing
Add(a, b) == IF a >= INF \/ b >= INF THEN INF ELSE a + b

\* integer division rounding toward zero (the float quotient, truncated)
TruncDiv(a, b) == IF a >= 0 THEN a \div b ELSE -((-a) \div b)

RECURSIVE ISqrtBS(_, _, _)
ISqrtBS(x, lo, hi) ==
    IF lo >= hi THEN lo
    ELSE LET mid == (lo + hi + 1) \div 2
         IN  IF mid * mid <= x THEN ISqrtBS(x, mid, hi)
                               ELSE ISqrtBS(x, lo, mid - 1)

\* floor(sqrt(x))
ISqrt(x) == ISqrtBS(x, 0, Min(x, 46340))

\* math.sqrt(dlat**2 + dlon**2), in FSCALE-ths of an arc-minute
PlanarDist(dlat, dlon) == ISqrt((dlat * dlat + dlon * dlon) * FSCALE * FSCALE)

\* sum of s[lo..hi] (halved, so that the nesting stays shallow)
RECURSIVE SumRange(_, _, _)
SumRange(s, lo, hi) ==
    IF lo > hi THEN 0
    ELSE IF lo = hi THEN s[lo]
    ELSE Add(SumRange(s, lo, (lo + hi) \div 2), SumRange(s, ((lo + hi) \div 2) + 1, hi))

SumSeq(s) == SumRange(s, 1, Len(s))

Range(s) == { s[i] : i \in DOMAIN s }

\* ---------------------------------------------------------------------
\* Land oracle (LandDetectionService)
\* ---------------------------------------------------------------------
\* One edge test of the ray-casting loop for the point (latN/den, lonN/den).
\* xinters is compared by cross-multiplication, so no rounding is involved.
EdgeCrossed(latN, lonN, den, p1, p2) ==
    LET p1_lat == p1[1]  p1_lon == p1[2]
        p2_lat == p2[1]  p2_lon == p2[2]
        D == p2_lat - p1_lat
        A == (latN - den * p1_lat) * (p2_lon - p1_lon)
        L == (lonN - den * p1_lon) * D
    IN  /\ latN > den * Min(p1_lat, p2_lat)
        /\ latN <= den * Max(p1_lat, p2_lat)
        /\ lonN <= den * Max(p1_lon, p2_lon)
        /\ \/ p1_lon = p2_lon
           \/ (D > 0 /\ L <= A)
           \/ (D < 0 /\ L >= A)

\* point_in_polygon: odd number of crossed edges
PointInPolygonQ(latN, lonN, den, polygon) ==
    LET n == Len(polygon)
        crossed == { i \in 1..n :
                       EdgeCrossed(latN, lonN, den,
                                   polygon[i], polygon[(i % n) + 1]) }
    IN  Cardinality(crossed) % 2 = 1

point_in_polygon(point, polygon) ==
    PointInPolygonQ(point[1], point[2], 1, polygon)

\* LAND_POLYGONS, in arc-minutes: the polygons that reach into the region
\* the model's requests lie in (8..24 N, 68..78 E), which is "india" alone
LAND_POLYGONS ==
    << << <<2130, 4440>>, <<2040, 4500>>, <<1950, 4530>>, <<1830, 4650>>, <<1740, 4710>>, <<1650, 4770>>,
          <<1590, 5280>>, <<1560, 5400>>, <<1560, 5520>>, <<1530, 5580>>, <<1470, 5610>>, <<1410, 5550>>,
          <<1380, 5460>>, <<1350, 5370>>, <<1320, 5310>>, <<1260, 5280>>, <<1200, 5190>>, <<1140, 5130>>,
          <<1080, 5040>>, <<1020, 4992>>, <<960, 4950>>, <<900, 4908>>, <<840, 4872>>, <<792, 4812>>,
          <<768, 4800>>, <<720, 4770>>, <<660, 4740>>, <<570, 4698>>, <<510, 4650>>, <<510, 4614>>,
          <<540, 4602>>, <<570, 4590>>, <<600, 4572>>, <<630, 4554>>, <<660, 4536>>, <<690, 4518>>,
          <<720, 4500>>, <<750, 4482>>, <<780, 4464>>, <<810, 4446>>, <<840, 4428>>, <<870, 4416>>,
          <<900, 4404>>, <<930, 4392>>, <<960, 4386>>, <<990, 4380>>, <<1020, 4377>>, <<1050, 4374>>,
          <<1080, 4371>>, <<1110, 4368>>, <<1140, 4365>>, <<1170, 4362>>, <<1200, 4359>>, <<1230, 4356>>,
          <<1260, 4353>>, <<1290, 4350>>, <<1320, 4347>>, <<1350, 4344>>, <<1380, 4332>>, <<1410, 4308>>,
          <<1440, 4272>>, <<1470, 4236>>, <<1500, 4200>>, <<1560, 4170>>, <<1620, 4140>>, <<1680, 4122>>,
          <<1740, 4110>>, <<1860, 4140>>, <<1980, 4260>>, <<2070, 4380>>, <<2130, 4440>> >> >>

is_point_on_land_q(latN, lonN, den) ==
    \E r \in DOMAIN LAND_POLYGONS : PointInPolygonQ(latN, lonN, den, LAND_POLYGONS[r])

is_point_on_land(lat, lon) == is_point_on_land_q(lat, lon, 1)

\* line_crosses_land: both endpoints and the samples t = i/num_checks
line_crosses_land_q(lat1N, lon1N, lat2N, lon2N, den, num_checks) ==
    \/ is_point_on_land_q(lat1N, lon1N, den)
    \/ is_point_on_land_q(lat2N, lon2N, den)
    \/ \E i \in 1..(num_checks - 1) :
          is_point_on_land_q(lat1N * num_checks + i * (lat2N - lat1N),
                             lon1N * num_checks + i * (lon2N - lon1N),
                             den * num_checks)

NUM_CHECKS == 50

line_crosses_land(lat1, lon1, lat2, lon2) ==
    line_crosses_land_q(lat1, lon1, lat2, lon2, 1, NUM_CHECKS)

\* ---------------------------------------------------------------------
\* Ocean grid, Level 2 (OceanGrid), as far as the sampling planner reads it
\* ---------------------------------------------------------------------
LEVEL2_RESOLUTION == 6
DEPTH_SHALLOW_BOUNDARY == 50

\* OCEAN_BOUNDS: the corner the lattice starts from (60 S, 180 W)
OCEAN_MIN_LAT == -3600
OCEAN_MIN_LON == -10800

\* _initialize_grid: lattice anchored at the minimum corner
GridCells ==
    { <<OCEAN_MIN_LAT + i * LEVEL2_RESOLUTION, OCEAN_MIN_LON + j * LEVEL2_RESOLUTION>> :
        i \in GridFirstRow..(GridFirstRow + GridRows),
        j \in GridFirstCol..(GridFirstCol + GridCols) }

\* _load_depth_data, for a cell that is not LAND: latitude bands overridden
\* by the shelf rectangles
WaterDepth(lat, lon) ==
    IF lat > 35 * 60 /\ lat < 45 * 60 /\ lon > -20 * 60 /\ lon < 40 * 60 THEN 200
    ELSE IF lat > 20 * 60 /\ lat < 35 * 60 /\ lon > 50 * 60 /\ lon < 75 * 60 THEN 150
    ELSE IF lat > 5 * 60 /\ lat < 20 * 60 /\ lon > 85 * 60 /\ lon < 105 * 60 THEN 100
    ELSE IF lat > -15 * 60 /\ lat < 5 * 60 /\ lon > 95 * 60 /\ lon < 140 * 60 THEN 80
    ELSE IF lat > 60 * 60 \/ lat < -50 * 60 THEN 3500
    ELSE IF lat > 40 * 60 \/ lat < -40 * 60 THEN 4000
    ELSE 3500

\* _load_depth_data at level 2, where every cell on land is LAND
DepthM(lat, lon) ==
    IF is_point_on_land(lat, lon) THEN 0 ELSE WaterDepth(lat, lon)

\* _classify_cells (level 2 checks every cell) followed by _load_depth_data
CellType(lat, lon) ==
    IF is_point_on_land(lat, lon) THEN "LAND"
    ELSE IF DepthM(lat, lon) < DEPTH_SHALLOW_BOUNDARY THEN "SHALLOW"
    ELSE "WATER"

\* Python round(n / d): nearest integer, ties to the even one
RoundHalfEven(n, d) ==
    LET q == n \div d
        r == n % d
    IN  IF 2 * r < d THEN q
        ELSE IF 2 * r > d THEN q + 1
        ELSE IF q % 2 = 0 THEN q ELSE q + 1

\* get_cell for the point (latN/den, lonN/den): round to the resolution and
\* look the key up; the result is the set of cells found (none or one)
get_cell(latN, lonN, den) ==
    LET lat_rounded == RoundHalfEven(latN, den * LEVEL2_RESOLUTION) * LEVEL2_RESOLUTION
        lon_rounded == RoundHalfEven(lonN, den * LEVEL2_RESOLUTION) * LEVEL2_RESOLUTION
    IN  { c \in GridCells : c = <<lat_rounded, lon_rounded>> }

\* ---------------------------------------------------------------------
\* Bidirectional sampling planner (HybridBidirectionalRRTStar)
\* ---------------------------------------------------------------------
\* _init_hazard_zones: <<center_lat, center_lon, radius, cost_mult * 1000>>
SHALLOW_WATER_ZONES ==
    << <<1830, 1938, 30, 1500>>, <<1140, 2400, 60, 1300>>,
       <<150, 6120, 48, 1400>>,  <<600, 6300, 60, 1300>> >>
PIRACY_ZONES ==
    << <<630, 3000, 120, 1200>>, <<30, 6150, 90, 1100>> >>
MONSOON_ZONES ==
    << <<900, 3900, 180, 1300>>, <<900, 5400, 180, 1250>> >>
MONSOON_MONTHS == {5, 6, 7, 8, 9}
Months == 1..12

\* squared distance, times 4, between the midpoint (lat2x/2, lon2x/2) and a
\* zone centre
ZoneD2x4(lat2x, lon2x, z) ==
    (lat2x - 2 * z[1]) * (lat2x - 2 * z[1]) + (lon2x - 2 * z[2]) * (lon2x - 2 * z[2])

\* cost *= 1 + (mult - 1) * (1 - dist / radius), inside the disc only
DegradedFactor(cost, lat2x, lon2x, z) ==
    IF ZoneD2x4(lat2x, lon2x, z) < 4 * z[3] * z[3]
    THEN LET dist2F == ISqrt(ZoneD2x4(lat2x, lon2x, z) * FSCALE * FSCALE)
             rad2F  == 2 * z[3] * FSCALE
         IN  (cost * (1000 + ((z[4] - 1000) * (rad2F - dist2F)) \div rad2F)) \div 1000
    ELSE cost

\* cost *= mult * 0.8, inside 0.8 * radius only
PiracyFactor(cost, lat2x, lon2x, z) ==
    IF 25 * ZoneD2x4(lat2x, lon2x, z) < 64 * z[3] * z[3]
    THEN (cost * z[4] * 8) \div 10000
    ELSE cost

RECURSIVE FoldShallow(_, _, _, _)
FoldShallow(cost, lat2x, lon2x, i) ==
    IF i > Len(SHALLOW_WATER_ZONES) THEN cost
    ELSE FoldShallow(DegradedFactor(cost, lat2x, lon2x, SHALLOW_WATER_ZONES[i]),
                     lat2x, lon2x, i + 1)

RECURSIVE FoldPiracy(_, _, _, _)
FoldPiracy(cost, lat2x, lon2x, i) ==
    IF i > Len(PIRACY_ZONES) THEN cost
    ELSE FoldPiracy(PiracyFactor(cost, lat2x, lon2x, PIRACY_ZONES[i]),
                    lat2x, lon2x, i + 1)

RECURSIVE FoldMonsoon(_, _, _, _, _)
FoldMonsoon(cost, lat2x, lon2x, month, i) ==
    IF i > Len(MONSOON_ZONES) THEN cost
    ELSE FoldMonsoon(IF month \in MONSOON_MONTHS
                     THEN DegradedFactor(cost, lat2x, lon2x, MONSOON_ZONES[i])
                     ELSE cost,
                     lat2x, lon2x, month, i + 1)

\* _get_hazard_cost at the point (lat2x/2, lon2x/2); result times 1000
get_hazard_cost(lat2x, lon2x, month) ==
    FoldMonsoon(FoldPiracy(FoldShallow(1000, lat2x, lon2x, 1), lat2x, lon2x, 1),
                lat2x, lon2x, month, 1)

\* _segment_cost: planar length times the hazard cost at the midpoint
segment_cost(lat1, lon1, lat2, lon2, month) ==
    (PlanarDist(lat2 - lat1, lon2 - lon1)
       * get_hazard_cost(lat1 + lat2, lon1 + lon2, month)) \div 1000

is_water(lat, lon) == ~is_point_on_land(lat, lon)

\* _is_collision_free: 15 / 8 / 4 / 2 interior samples by segment length
\* (1.0, 0.5 and 0.1 degrees are 60, 30 and 6 arc-minutes), then the endpoints
NumSamples(lat1, lon1, lat2, lon2) ==
    LET d2 == (lat2 - lat1) * (lat2 - lat1) + (lon2 - lon1) * (lon2 - lon1)
    IN  IF d2 > 60 * 60 THEN 15
        ELSE IF d2 > 30 * 30 THEN 8
        ELSE IF d2 > 6 * 6 THEN 4
        ELSE 2

is_collision_free(lat1, lon1, lat2, lon2) ==
    LET num_samples == NumSamples(lat1, lon1, lat2, lon2)
    IN  /\ \A i \in 1..num_samples :
              ~is_point_on_land_q(lat1 * (num_samples + 1) + i * (lat2 - lat1),
                                  lon1 * (num_samples + 1) + i * (lon2 - lon1),
                                  num_samples + 1)
        /\ is_water(lat1, lon1)
        /\ is_water(lat2, lon2)

\* TreeNode; parent is <<>> for a root, else the position of the parent
TreeNode(lat, lon, parent, cost) ==
    [lat |-> lat, lon |-> lon, parent |-> parent, cost |-> cost]

Pos(n) == <<n.lat, n.lon>>

D2(p, q) == (p[1] - q[1]) * (p[1] - q[1]) + (p[2] - q[2]) * (p[2] - q[2])

\* _nearest_node: min() over a set; which of several equally near nodes is
\* met first depends on the set's iteration order
nearest_node(point, tree) ==
    { n \in tree : \A m \in tree : D2(Pos(n), point) <= D2(Pos(m), point) }

\* the steering step of _extend
Steer(nearest_pos, point, step) ==
    LET dlat == point[1] - nearest_pos[1]
        dlon == point[2] - nearest_pos[2]
    IN  IF D2(nearest_pos, point) < step * step THEN point
        ELSE << nearest_pos[1] + TruncDiv(step * FSCALE * dlat, PlanarDist(dlat, dlon)),
                nearest_pos[2] + TruncDiv(step * FSCALE * dlon, PlanarDist(dlat, dlon)) >>

\* set.add: a node equal (same position) to a member is not added
TreeAdd(tree, node) ==
    IF \E m \in tree : Pos(m) = Pos(node) THEN tree ELSE tree \cup {node}

NoNode == [lat |-> 0, lon |-> 0, parent |-> <<>>, cost |-> -1]

\* _extend: the possible outcomes [node, tree]; node = NoNode stands for None
extend(tree, point, step, month) ==
    { LET nearest_pos == Pos(nearest)
          new_pos == Steer(nearest_pos, point, step)
      IN  IF ~is_collision_free(nearest_pos[1], nearest_pos[2], new_pos[1], new_pos[2])
          THEN [node |-> NoNode, tree |-> tree]
          ELSE LET new_node ==
                     TreeNode(new_pos[1], new_pos[2], nearest_pos,
                              nearest.cost + segment_cost(nearest_pos[1], nearest_pos[2],
                                                          new_pos[1], new_pos[2], month))
               IN  [node |-> new_node, tree |-> TreeAdd(tree, new_node)]
      : nearest \in nearest_node(point, tree) }

MARGIN == 180
SAFE_AREAS ==
    << <<900, 4080>>, <<600, 4500>>, <<300, 4800>>,
       <<720, 4920>>, <<1080, 4200>>, <<660, 4740>> >>

InBox(c) ==
    /\ Min(start[1], goal[1]) - MARGIN <= c[1]
    /\ c[1] <= Max(start[1], goal[1]) + MARGIN
    /\ Min(start[2], goal[2]) - MARGIN <= c[2]
    /\ c[2] <= Max(start[2], goal[2]) + MARGIN

deep_water_cells ==
    { c \in GridCells : CellType(c[1], c[2]) = "WATER" /\ DepthM(c[1], c[2]) > 50 /\ InBox(c) }
shallow_water_cells ==
    { c \in GridCells : /\ CellType(c[1], c[2]) = "WATER"
                        /\ 20 <= DepthM(c[1], c[2]) /\ DepthM(c[1], c[2]) <= 50
                        /\ InBox(c) }
all_water_cells ==
    { c \in GridCells : CellType(c[1], c[2]) = "WATER" /\ InBox(c) }

IsWaterCell(cells) == \E c \in cells : CellType(c[1], c[2]) = "WATER"

\* the fallback strategies of _get_random_water_point, reached when no
\* tier yields a cell.  The box limits min_lat .. max_lon are locals bound
\* only on the call that builds the grid, so any later call that reaches
\* the safe-area loop raises UnboundLocalError.
FallbackPoints(first_call) ==
    LET mid == << (start[1] + goal[1]) \div 2, (start[2] + goal[2]) \div 2 >>
        safe == { i \in DOMAIN SAFE_AREAS :
                    /\ InBox(SAFE_AREAS[i])
                    /\ IsWaterCell(get_cell(SAFE_AREAS[i][1], SAFE_AREAS[i][2], 1)) }
        all_water == { c \in GridCells : CellType(c[1], c[2]) = "WATER" }
    IN  IF IsWaterCell(get_cell(start[1] + goal[1], start[2] + goal[2], 2))
        THEN { [ok |-> TRUE, p |-> mid] }
        ELSE IF ~first_call
        THEN { [ok |-> FALSE, p |-> mid] }
        ELSE IF safe # {}
        THEN { [ok |-> TRUE, p |-> SAFE_AREAS[CHOOSE i \in safe : \A j \in safe : i <= j]] }
        ELSE IF all_water # {}
        THEN { [ok |-> TRUE, p |-> c] : c \in all_water }
        ELSE { [ok |-> TRUE, p |-> << mid[1], mid[2] - 60 >>] }

\* _get_random_water_point: every point the two random.random() draws and
\* random.choice can yield; ok = FALSE is the exception
get_random_water_point(first_call) ==
    LET tiers == deep_water_cells \cup shallow_water_cells \cup all_water_cells
    IN  IF all_water_cells # {}
        THEN { [ok |-> TRUE, p |-> c] : c \in tiers }
        ELSE FallbackPoints(first_call)

\* goal_bias * 1000, from the route distance (haversine taken as planar)
GoalBias(s, g) ==
    IF D2(s, g) < 500 * 500 THEN 500
    ELSE IF D2(s, g) < 1000 * 1000 THEN 350
    ELSE 200

\* one sampling decision: random.random() < goal_bias picks the bias target,
\* otherwise a water point is drawn; sampled tells whether the grid was used
Draw(target, first_call) ==
    (IF GoalBias(start, goal) > 0
     THEN { [ok |-> TRUE, p |-> target, sampled |-> FALSE] } ELSE {})
    \cup
    (IF GoalBias(start, goal) < 1000
     THEN { [ok |-> d.ok, p |-> d.p, sampled |-> TRUE] :
              d \in get_random_water_point(first_call) }
     ELSE {})

\* "try to connect": the connection is replaced when the two new nodes are
\* joined by a collision-free segment and the total cost improves
Connect(new_start, new_goal, conn, best, month) ==
    IF /\ new_start # NoNode
       /\ new_goal # NoNode
       /\ is_collision_free(new_start.lat, new_start.lon, new_goal.lat, new_goal.lon)
       /\ new_start.cost + new_goal.cost
            + segment_cost(new_start.lat, new_start.lon,
                           new_goal.lat, new_goal.lon, month) < best
    THEN [conn |-> <<new_start, new_goal>>,
          best |-> new_start.cost + new_goal.cost
                     + segment_cost(new_start.lat, new_start.lon,
                                    new_goal.lat, new_goal.lon, month)]
    ELSE [conn |-> conn, best |-> best]

\* first half of an iteration: extend the start tree, then the goal tree
\* toward the new node
StartSide(ts, tg, conn, best, rand_point, step, month) ==
    UNION { { LET c == Connect(e1.node, e2.node, conn, best, month)
              IN  [ts |-> e1.tree, tg |-> e2.tree, conn |-> c.conn, best |-> c.best]
              : e2 \in (IF e1.node # NoNode
                        THEN extend(tg, Pos(e1.node), step, month)
                        ELSE { [node |-> NoNode, tree |-> tg] }) }
            : e1 \in extend(ts, rand_point, step, month) }

\* second half: extend the goal tree, then the start tree toward the new node
GoalSide(ts, tg, conn, best, rand_point, step, month) ==
    UNION { { LET c == Connect(e2.node, e1.node, conn, best, month)
              IN  [ts |-> e2.tree, tg |-> e1.tree, conn |-> c.conn, best |-> c.best]
              : e2 \in (IF e1.node # NoNode
                        THEN extend(ts, Pos(e1.node), step, month)
                        ELSE { [node |-> NoNode, tree |-> ts] }) }
            : e1 \in extend(tg, rand_point, step, month) }

\* list(tree)[-20:]: the last 20 nodes in the set's iteration order
LAST_NODES == 20
LastNodes(tree) ==
    IF Cardinality(tree) <= LAST_NODES THEN {tree}
    ELSE { t \in SUBSET tree : Cardinality(t) = LAST_NODES }

\* the partial-connection fallback after the loop: the cheapest
\* collision-free pair among the last nodes of each tree (none: {})
PartialConnections(ts, tg, month) ==
    UNION { { pr \in (sn \X gn) :
                /\ is_collision_free(pr[1].lat, pr[1].lon, pr[2].lat, pr[2].lon)
                /\ \A qr \in (sn \X gn) :
                      is_collision_free(qr[1].lat, qr[1].lon, qr[2].lat, qr[2].lon)
                      => pr[1].cost + pr[2].cost
                           + segment_cost(pr[1].lat, pr[1].lon, pr[2].lat, pr[2].lon, month)
                         <= qr[1].cost + qr[2].cost
                           + segment_cost(qr[1].lat, qr[1].lon, qr[2].lat, qr[2].lon, month) }
            : sn \in LastNodes(ts), gn \in LastNodes(tg) }

NodeAt(tree, pos) == CHOOSE n \in tree : Pos(n) = pos

\* the chain node, node.parent, ... up to the root
RECURSIVE Chain(_, _)
Chain(node, tree) ==
    IF node.parent = <<>> THEN << Pos(node) >>
    ELSE << Pos(node) >> \o Chain(NodeAt(tree, node.parent), tree)

Reverse(s) == [ i \in 1..Len(s) |-> s[Len(s) + 1 - i] ]

\* path reconstruction of HybridBidirectionalRRTStar.plan
ReconstructPath(conn, ts, tg) ==
    Reverse(Chain(conn[1], ts)) \o Chain(conn[2], tg)

\* ---------------------------------------------------------------------
\* Incremental planner (DStar)
\* ---------------------------------------------------------------------
\* A node object is named <<kind, lat, lon>>: kind 0 is self.start, 1 is
\* self.goal, 2 a node created by _get_neighbors.  DStarNode.__eq__ compares
\* positions only.
NodePos(id) == <<id[2], id[3]>>
SameNode(a, b) == NodePos(a) = NodePos(b)

DStarNode(lat, lon) ==
    [lat |-> lat, lon |-> lon, g |-> INF, rhs |-> INF, key |-> <<INF, INF>>]

\* tuple comparison of keys
KeyLess(k1, k2) == k1[1] < k2[1] \/ (k1[1] = k2[1] /\ k1[2] < k2[2])

\* variant of _heuristic: the sum of the two coordinate differences
heuristic_manhattan(n1, n2) == (Abs(n1.lat - n2.lat) + Abs(n1.lon - n2.lon)) * FSCALE

\* _heuristic, in FSCALE-ths of a nautical mile
heuristic(n1, n2) == PlanarDist(n1.lat - n2.lat, n1.lon - n2.lon)

get_edge_cost(n1, n2) == heuristic(n1, n2)

\* _calculate_key
calculate_key(d, id) ==
    LET node == d.objs[id]
        h == heuristic(node, d.objs[d.goal])
    IN  << Add(Min(node.g, node.rhs), h), Min(node.g, node.rhs) >>

\* heapq on the list of node objects, ordered by DStarNode.__lt__ (the
\* stored key); positions are 1-based here
Less(d, a, b) == KeyLess(d.objs[a].key, d.objs[b].key)

RECURSIVE SiftDown(_, _, _, _, _)
SiftDown(d, heap, startpos, pos, newitem) ==
    IF pos > startpos /\ Less(d, newitem, heap[pos \div 2])
    THEN SiftDown(d, [heap EXCEPT ![pos] = heap[pos \div 2]], startpos, pos \div 2, newitem)
    ELSE [heap EXCEPT ![pos] = newitem]

RECURSIVE SiftUpLoop(_, _, _, _, _)
SiftUpLoop(d, heap, startpos, pos, newitem) ==
    LET childpos == 2 * pos
        rightpos == childpos + 1
        c == IF rightpos <= Len(heap) /\ ~Less(d, heap[childpos], heap[rightpos])
             THEN rightpos ELSE childpos
    IN  IF childpos <= Len(heap)
        THEN SiftUpLoop(d, [heap EXCEPT ![pos] = heap[c]], startpos, c, newitem)
        ELSE SiftDown(d, [heap EXCEPT ![pos] = newitem], startpos, pos, newitem)

SiftUp(d, heap, pos) == SiftUpLoop(d, heap, pos, pos, heap[pos])

RECURSIVE HeapifyFrom(_, _, _)
HeapifyFrom(d, heap, i) ==
    IF i < 1 THEN heap ELSE HeapifyFrom(d, SiftUp(d, heap, i), i - 1)

heapify(d, heap) == HeapifyFrom(d, heap, Len(heap) \div 2)

heappush(d, heap, item) ==
    SiftDown(d, Append(heap, item), 1, Len(heap) + 1, item)

\* heappop: the list that is left (the popped item is heap[1])
heappop(d, heap) ==
    IF Len(heap) = 1 THEN <<>>
    ELSE SiftUp(d, [SubSeq(heap, 1, Len(heap) - 1) EXCEPT ![1] = heap[Len(heap)]], 1)

\* "node in self.open_list" and list.remove(node): by __eq__
InOpen(d, id) == \E i \in DOMAIN d.open : SameNode(d.open[i], id)

ListRemove(heap, id) ==
    LET k == CHOOSE i \in DOMAIN heap :
                 SameNode(heap[i], id) /\ \A j \in DOMAIN heap : SameNode(heap[j], id) => i <= j
    IN  SubSeq(heap, 1, k - 1) \o SubSeq(heap, k + 1, Len(heap))

\* DStar.__init__
DStarInit(s, g, step, max_it) ==
    LET sid == <<0, s[1], s[2]>>
        gid == <<1, g[1], g[2]>>
        objs0 == (sid :> [DStarNode(s[1], s[2]) EXCEPT !.rhs = 0])
                   @@ (gid :> DStarNode(g[1], g[2]))
        d0 == [start |-> sid, goal |-> gid, step_size_deg |-> step,
               max_iterations |-> max_it, objs |-> objs0,
               nodes |-> (g :> gid) @@ (s :> sid),
               open |-> <<>>, changed_cells |-> {}]
        d1 == [d0 EXCEPT !.objs[sid].key = calculate_key(d0, sid)]
    IN  [d1 EXCEPT !.open = heappush(d1, <<>>, sid)]

\* _get_neighbors: the 8 directions in the order of the source
DIRECTIONS ==
    << <<-1, -1>>, <<-1, 0>>, <<-1, 1>>, <<0, -1>>,
       <<0, 1>>, <<1, -1>>, <<1, 0>>, <<1, 1>> >>
DSTAR_MIN_LAT == -3600
DSTAR_MAX_LAT == 1800
DSTAR_MIN_LON == 1200
DSTAR_MAX_LON == 7200

NeighborValid(p) ==
    /\ DSTAR_MIN_LAT <= p[1] /\ p[1] <= DSTAR_MAX_LAT
    /\ DSTAR_MIN_LON <= p[2] /\ p[2] <= DSTAR_MAX_LON
    /\ ~is_point_on_land(p[1], p[2])

NeighborPositions(d, id) ==
    LET node == d.objs[id]
        all == [ i \in 1..8 |-> << node.lat + DIRECTIONS[i][1] * d.step_size_deg,
                                   node.lon + DIRECTIONS[i][2] * d.step_size_deg >> ]
    IN  SelectSeq(all, NeighborValid)

\* the nodes _get_neighbors creates on the way (self.nodes grows lazily)
WithNodes(d, positions) ==
    LET fresh == { p \in Range(positions) : p \notin DOMAIN d.nodes }
    IN  IF fresh = {} THEN d ELSE
        [d EXCEPT !.nodes = [ p \in fresh |-> <<2, p[1], p[2]>> ] @@ d.nodes,
                  !.objs = [ id \in { <<2, p[1], p[2]>> : p \in fresh }
                               |-> DStarNode(id[2], id[3]) ] @@ d.objs]

\* state after _get_neighbors(id), and the list it returns
AfterNeighbors(d, id) == WithNodes(d, NeighborPositions(d, id))
get_neighbors(d, id) ==
    LET ps == NeighborPositions(d, id)
        d2 == WithNodes(d, ps)
    IN  [ i \in 1..Len(ps) |-> d2.nodes[ps[i]] ]

\* variant of _update_node: an inconsistent node that is not queued is not
\* added
update_node_queued(d, id) ==
    LET node == d.objs[id]
        keyed == [d EXCEPT !.objs[id].key = calculate_key(d, id)]
    IN  IF node.g # node.rhs /\ InOpen(d, id)
        THEN [keyed EXCEPT !.open = heapify(keyed, keyed.open)]
        ELSE IF node.g = node.rhs /\ InOpen(d, id)
        THEN [d EXCEPT !.open = heapify(d, ListRemove(d.open, id))]
        ELSE d

\* _update_node
update_node(d, id) ==
    LET node == d.objs[id]
        keyed == [d EXCEPT !.objs[id].key = calculate_key(d, id)]
    IN  IF node.g # node.rhs /\ InOpen(d, id)
        THEN [keyed EXCEPT !.open = heapify(keyed, keyed.open)]
        ELSE IF node.g # node.rhs /\ ~InOpen(d, id)
        THEN [keyed EXCEPT !.open = heappush(keyed, keyed.open, id)]
        ELSE IF node.g = node.rhs /\ InOpen(d, id)
        THEN [d EXCEPT !.open = heapify(d, ListRemove(d.open, id))]
        ELSE d

\* min over _get_neighbors(id) of neighbor.g + cost (the rhs recomputation)
MinPredCost(d, id) ==
    LET ns == get_neighbors(d, id)
        d2 == AfterNeighbors(d, id)
        costs == { Add(d2.objs[ns[i]].g, get_edge_cost(d2.objs[id], d2.objs[ns[i]]))
                     : i \in DOMAIN ns }
    IN  IF costs = {} THEN INF
        ELSE Min(INF, CHOOSE c \in costs : \A e \in costs : c <= e)

\* the loop condition of _compute_shortest_path
LoopCondition(d, iterations) ==
    /\ d.open # <<>>
    /\ \/ KeyLess(d.objs[d.open[1]].key, calculate_key(d, d.goal))
       \/ d.objs[d.goal].rhs # d.objs[d.goal].g
    /\ iterations < d.max_iterations

\* overconsistent branch: the loop over the neighbours of current, from
\* the i-th on
RECURSIVE RelaxNeighbors(_, _, _, _)
RelaxNeighbors(d, current, ns, i) ==
    IF i > Len(ns) THEN d
    ELSE LET neighbor == ns[i]
             cost == get_edge_cost(d.objs[current], d.objs[neighbor])
             d1 == IF ~SameNode(neighbor, d.start)
                   THEN [d EXCEPT !.objs[neighbor].rhs =
                            Min(d.objs[neighbor].rhs, Add(d.objs[current].g, cost))]
                   ELSE d
         IN  RelaxNeighbors(update_node(d1, neighbor), current, ns, i + 1)

\* underconsistent branch: the loop over the neighbours of current
RECURSIVE RaiseNeighbors(_, _, _, _, _)
RaiseNeighbors(d, current, old_g, ns, i) ==
    IF i > Len(ns) THEN d
    ELSE LET neighbor == ns[i]
             cost == get_edge_cost(d.objs[current], d.objs[neighbor])
             d1 == IF d.objs[neighbor].rhs = Add(old_g, cost) /\ ~SameNode(neighbor, d.start)
                   THEN [AfterNeighbors(d, neighbor) EXCEPT
                            !.objs[neighbor].rhs = MinPredCost(d, neighbor)]
                   ELSE d
         IN  RaiseNeighbors(update_node(d1, neighbor), current, old_g, ns, i + 1)

\* one iteration of the loop of _compute_shortest_path
ComputeStep(d) ==
    LET current == d.open[1]
        popped == [d EXCEPT !.open = heappop(d, d.open)]
        node == d.objs[current]
    IN  IF node.g > node.rhs
        THEN LET d1 == [popped EXCEPT !.objs[current].g = node.rhs]
             IN  RelaxNeighbors(AfterNeighbors(d1, current), current,
                                get_neighbors(d1, current), 1)
        ELSE LET d1 == [popped EXCEPT !.objs[current].g = INF]
                 d2 == IF ~SameNode(current, d.start)
                       THEN [AfterNeighbors(d1, current) EXCEPT
                                !.objs[current].rhs = MinPredCost(d1, current)]
                       ELSE d1
                 d3 == update_node(d2, current)
             IN  RaiseNeighbors(AfterNeighbors(d3, current), current, node.g,
                                get_neighbors(d3, current), 1)

\* path extraction of plan() / replan(): greedy walk from the goal
PATH_CAP == 1000

\* variant of BestPredecessor: the last neighbour, in list order, with the
\* least g + cost
BestPredecessorLast(d, ns, current) ==
    LET c(i) == Add(d.objs[ns[i]].g, get_edge_cost(d.objs[ns[i]], d.objs[current]))
        ok == { i \in DOMAIN ns : c(i) < INF /\ \A j \in DOMAIN ns : c(i) <= c(j) }
    IN  IF ok = {} THEN {} ELSE { ns[CHOOSE i \in ok : \A j \in ok : i >= j] }

\* the first neighbour, in list order, with the least g + cost below +inf
BestPredecessor(d, ns, current) ==
    LET c(i) == Add(d.objs[ns[i]].g, get_edge_cost(d.objs[ns[i]], d.objs[current]))
        ok == { i \in DOMAIN ns : c(i) < INF /\ \A j \in DOMAIN ns : c(i) <= c(j) }
    IN  IF ok = {} THEN {} ELSE { ns[CHOOSE i \in ok : \A j \in ok : i <= j] }

\* one evaluation of the loop test and, when it passes, of the loop body;
\* e.stopped tells that the loop has been left
ExtractStep(e) ==
    IF e.stopped THEN e
    ELSE IF SameNode(e.current, e.d.start) \/ Len(e.path) >= PATH_CAP
    THEN [e EXCEPT !.stopped = TRUE]
    ELSE LET path1 == Append(e.path, << e.d.objs[e.current].lat, e.d.objs[e.current].lon >>)
             d1 == AfterNeighbors(e.d, e.current)
             best == BestPredecessor(d1, get_neighbors(e.d, e.current), e.current)
         IN  IF best = {}
             THEN [d |-> d1, current |-> e.current, path |-> path1, stopped |-> TRUE]
             ELSE [d |-> d1, current |-> CHOOSE b \in best : TRUE, path |-> path1,
                   stopped |-> FALSE]

\* n loop steps in a row (halved, so that the nesting stays shallow)
RECURSIVE ExtractLoop(_, _)
ExtractLoop(e, n) ==
    IF n = 0 \/ e.stopped THEN e
    ELSE IF n = 1 THEN ExtractStep(e)
    ELSE ExtractLoop(ExtractLoop(e, n \div 2), n - (n \div 2))

ExtractPath(d) ==
    LET e == ExtractLoop([d |-> d, current |-> d.goal, path |-> <<>>, stopped |-> FALSE],
                         PATH_CAP + 1)
    IN  [d |-> e.d,
         path |-> Reverse(Append(e.path, << d.objs[d.start].lat, d.objs[d.start].lon >>))]

\* variant of PlanReturn: the test reads the goal's rhs where the source
\* reads its g
PlanReturnRhs(d) ==
    IF ~(d.objs[d.goal].rhs < INF) THEN [d |-> d, path |-> <<>>]
    ELSE ExtractPath(d)

\* what plan() / replan() return once the loop has stopped
PlanReturn(d) ==
    IF ~(d.objs[d.goal].g < INF) THEN [d |-> d, path |-> <<>>]
    ELSE ExtractPath(d)

\* total edge cost of a path, by _get_edge_cost on consecutive vertices
PathCost(path) ==
    SumSeq([ i \in 1..(Len(path) - 1) |->
               PlanarDist(path[i + 1][1] - path[i][1], path[i + 1][2] - path[i][2]) ])

\* replan(): the update made for the changed obstacles, from the i-th on
RECURSIVE ReplanNeighbors(_, _, _)
ReplanNeighbors(d, ns, i) ==
    IF i > Len(ns) THEN d
    ELSE LET neighbor == ns[i]
             d1 == IF ~SameNode(neighbor, d.start)
                   THEN [AfterNeighbors(d, neighbor) EXCEPT
                            !.objs[neighbor].rhs = MinPredCost(d, neighbor)]
                   ELSE d
         IN  ReplanNeighbors(update_node(d1, neighbor), ns, i + 1)

\* variant of ReplanUpdate: the node costs are cleared and nothing is queued
ReplanUpdateReset(d, changed_obstacles, i) ==
    [d EXCEPT !.objs = [ id \in DOMAIN d.objs |->
                           [d.objs[id] EXCEPT !.g = INF,
                                              !.rhs = IF id = d.start THEN 0 ELSE INF] ],
              !.open = <<>>]

RECURSIVE ReplanUpdate(_, _, _)
ReplanUpdate(d, changed_obstacles, i) ==
    IF i > Len(changed_obstacles) THEN d
    ELSE LET key == changed_obstacles[i]
             d1 == [d EXCEPT !.changed_cells = @ \cup {key}]
             d2 == IF key \in DOMAIN d1.nodes
                   THEN ReplanNeighbors(AfterNeighbors(d1, d1.nodes[key]),
                                        get_neighbors(d1, d1.nodes[key]), 1)
                   ELSE d1
         IN  ReplanUpdate(d2, changed_obstacles, i + 1)

\* ---------------------------------------------------------------------
\* Route planning service (ShipRouteCalculator.plan_route)
\* ---------------------------------------------------------------------
\* OFFSHORE_PORTS: port coordinates in hundredths of an arc-minute (19.076 N
\* is 1144.56'), offshore coordinates in arc-minutes
OFFSHORE_PORTS ==
    << [port |-> <<114456, 437262>>, offshore |-> <<1134, 4368>>],
       [port |-> <<79164, 481692>>,  offshore |-> <<780, 4818>>],
       [port |-> <<135432, 530184>>, offshore |-> <<1290, 5280>>] >>

\* abs(lat - port[0]) < 0.2 and abs(lon - port[1]) < 0.2 (0.2 degrees = 12')
NearPort(p, port) ==
    /\ Abs(100 * p[1] - port[1]) < 1200
    /\ Abs(100 * p[2] - port[2]) < 1200

NearOffshore(p) ==
    \E i \in DOMAIN OFFSHORE_PORTS :
        /\ Abs(p[1] - OFFSHORE_PORTS[i].offshore[1]) < 12
        /\ Abs(p[2] - OFFSHORE_PORTS[i].offshore[2]) < 12

\* the loop over OFFSHORE_PORTS.items(), from the i-th port on
RECURSIVE PinPort(_, _)
PinPort(p, i) ==
    IF i > Len(OFFSHORE_PORTS) THEN p
    ELSE PinPort(IF NearPort(p, OFFSHORE_PORTS[i].port)
                 THEN OFFSHORE_PORTS[i].offshore ELSE p, i + 1)

\* _snap_to_water
WEST_COAST_LON == 4560
SNAP_OFFSET == 3
SNAP_OFFSETS == 19
SEARCH_RADIUS == << 6, 12, 18, 30, 42, 60 >>
SNAP_DIRECTIONS ==
    << <<0, 1>>, <<0, -1>>, <<1, 0>>, <<-1, 0>>,
       <<1, 1>>, <<1, -1>>, <<-1, 1>>, <<-1, -1>> >>

snap_to_water(p) ==
    LET sign == IF p[2] < WEST_COAST_LON THEN -1 ELSE 1
        offshore == { i \in 1..SNAP_OFFSETS :
                        ~is_point_on_land(p[1], p[2] + sign * SNAP_OFFSET * i) }
        test(k) == LET radius == SEARCH_RADIUS[((k - 1) \div 8) + 1]
                       dir == SNAP_DIRECTIONS[((k - 1) % 8) + 1]
                   IN  << p[1] + dir[1] * radius, p[2] + dir[2] * radius >>
        around == { k \in 1..(8 * Len(SEARCH_RADIUS)) :
                      ~is_point_on_land(test(k)[1], test(k)[2]) }
    IN  IF ~is_point_on_land(p[1], p[2]) THEN p
        ELSE IF offshore # {}
        THEN << p[1], p[2] + sign * SNAP_OFFSET
                                 * (CHOOSE i \in offshore : \A j \in offshore : i <= j) >>
        ELSE IF around # {}
        THEN test(CHOOSE k \in around : \A j \in around : k <= j)
        ELSE p

\* port pinning followed by the snap, which is skipped near an offshore point
SnapEndpoint(p) ==
    LET pinned == PinPort(p, 1)
    IN  IF NearOffshore(pinned) THEN pinned ELSE snap_to_water(pinned)

\* adaptive parameters from the straight-line distance (nautical miles)
AdaptiveParams(s, g) ==
    IF D2(s, g) < 500 * 500 THEN [max_iterations |-> 400, step_size_nm |-> 10]
    ELSE IF D2(s, g) < 1000 * 1000 THEN [max_iterations |-> 300, step_size_nm |-> 20]
    ELSE IF D2(s, g) < 2000 * 2000 THEN [max_iterations |-> 200, step_size_nm |-> 25]
    ELSE [max_iterations |-> 150, step_size_nm |-> 30]

\* interpolate_route: the points are <<latN, lonN>> over the denominator den
\* (the number of segments per leg), so lat1 + (lat2 - lat1) * j / segments
\* is exact
interpolate_route(wps, num_points) ==
    IF Len(wps) < 2
    THEN [den |-> 1, points |-> wps]
    ELSE LET segments == Max(2, num_points \div (Len(wps) - 1))
             point(k) ==
                 LET i == (k \div segments) + 1
                     j == k % segments
                 IN  IF j = 0 THEN << wps[i][1] * segments, wps[i][2] * segments >>
                     ELSE << wps[i][1] * segments + j * (wps[i + 1][1] - wps[i][1]),
                             wps[i][2] * segments + j * (wps[i + 1][2] - wps[i][2]) >>
         IN  [den |-> segments,
              points |-> [ k \in 1..((Len(wps) - 1) * segments + 1) |-> point(k - 1) ]]

NUM_POINTS == 100

\* the metrics loop: total_distance_nm (haversine taken as planar), in
\* FSCALE-ths of a nautical mile
TotalDistance(route) ==
    SumSeq([ i \in 1..(Len(route.points) - 1) |->
               PlanarDist(route.points[i + 1][1] - route.points[i][1],
                          route.points[i + 1][2] - route.points[i][2]) \div route.den ])

\* "waypoints": route_segments holds the end point of every segment
RouteSegments(route) == Tail(route.points)

\* variant of NoValidRoute: the two length checks are left out
NoValidRouteUnchecked(wps, interpolated) == FALSE

\* the two checks that raise ValueError: "not waypoints or len(waypoints) < 2"
\* and "not interpolated or len(interpolated) < 2"
NoValidRoute(wps, interpolated) ==
    Len(wps) < 2 \/ Len(interpolated) < 2

NoResult == [den |-> 1, interpolated |-> <<>>, waypoints |-> <<>>, total_distance_nm |-> 0]

\* ---------------------------------------------------------------------
\* Inputs
\* ---------------------------------------------------------------------
\* requests to plan_route (arc-minutes): along the coast south of Goa
\* (14.9 N to 15.95 N), from Mumbai port to two points offshore, from a
\* point ashore, from a point to itself, and across open sea west of
\* Mumbai (18 N, 71.5 E to 72.33 E)
RouteRequests ==
    { [start |-> <<894, 4402>>,  goal |-> <<957, 4385>>],
      [start |-> <<1080, 4290>>, goal |-> <<1080, 4340>>],
      [start |-> <<1140, 4374>>, goal |-> <<1134, 4338>>],
      [start |-> <<1140, 4374>>, goal |-> <<1134, 4350>>],
      [start |-> <<1100, 4376>>, goal |-> <<1100, 4350>>],
      [start |-> <<1134, 4348>>, goal |-> <<1134, 4348>>] }

\* the month of the clock: outside and inside the monsoon season
RequestMonths == {1, 7}

\* DStar instances built directly: start, goal, step_size_nm, max_iterations
DStarStarts == { <<1134, 4326>> }
DStarGoals == { <<1134, 4338>>, <<1146, 4338>>, <<1134, 4335>>, <<1134, 4326>>, <<1140, 4338>> }
DStarSteps == { 6 }
DStarBudgets == { 2, MaxDStarIterations }

\* arguments of replan(): lists over two lattice coordinates
ObstacleCoordinates == { <<1134, 4332>>, <<1140, 4332>> }
ChangedObstacles ==
    { <<>> } \cup { <<a>> : a \in ObstacleCoordinates }
             \cup { q \in ObstacleCoordinates \X ObstacleCoordinates : q[1] # q[2] }

NoRequest == [start |-> <<0, 0>>, goal |-> <<0, 0>>]
NoDStar == DStarInit(<<0, 0>>, <<0, 0>>, 0, 0)

\* ---------------------------------------------------------------------
\* Ocean grid, Level 1 (OceanGrid), as the hazard service holds it
\* ---------------------------------------------------------------------
LEVEL1_RESOLUTION == 60
OCEAN_MAX_LON == 10800
SAMPLE_RATE == 4
\* COST_MULTIPLIERS, in thousandths
COST_WATER == 1000
COST_SHALLOW == 3000
COST_HAZARD == 2500

\* the cells of the Level-1 lattice that are built (it has 52706): three in
\* the Arabian Sea (10 N 60 E, 12 N 62 E, 12 N 65 E) and two inside India
\* (20 N 76 E, 20 N 78 E)
Level1Keys ==
    { <<600, 3600>>, <<720, 3720>>, <<720, 3900>>, <<1200, 4560>>, <<1200, 4680>> }

\* _classify_cells at level 1 followed by _load_depth_data.  index is the
\* position of the cell in the iteration order of self.cells (rows of
\* latitude from the southern bound, each running west to east): every
\* SAMPLE_RATE-th cell is tested for land, the others are taken for water.
ClassifyLevel1(c) ==
    LET index == ((c[1] - OCEAN_MIN_LAT) \div LEVEL1_RESOLUTION)
                     * (((OCEAN_MAX_LON - OCEAN_MIN_LON) \div LEVEL1_RESOLUTION) + 1)
                 + ((c[2] - OCEAN_MIN_LON) \div LEVEL1_RESOLUTION)
        land == index % SAMPLE_RATE = 0 /\ is_point_on_land(c[1], c[2])
        shallow == ~land /\ WaterDepth(c[1], c[2]) < DEPTH_SHALLOW_BOUNDARY
    IN  [cell_type |-> IF land THEN "LAND" ELSE IF shallow THEN "SHALLOW" ELSE "WATER",
         cost |-> IF land THEN INF ELSE IF shallow THEN COST_SHALLOW ELSE COST_WATER,
         weather_factor |-> 1000]

\* get_cell at level 1: round to whole degrees and look the key up (the
\* result is the set of keys found: none or one)
get_cell_level1(cs, lat, lon) ==
    { c \in DOMAIN cs :
        c = <<RoundHalfEven(lat, LEVEL1_RESOLUTION) * LEVEL1_RESOLUTION,
              RoundHalfEven(lon, LEVEL1_RESOLUTION) * LEVEL1_RESOLUTION>> }

\* add_hazard_zone on the cells cs; z = <<center_lat, center_lon,
\* radius_deg, cost_multiplier>>, the multiplier in thousandths
add_hazard_zone(cs, z) ==
    [c \in DOMAIN cs |->
        IF /\ (c[1] - z[1]) * (c[1] - z[1]) + (c[2] - z[2]) * (c[2] - z[2]) <= z[3] * z[3]
           /\ cs[c].cell_type # "LAND"
        THEN [cell_type |-> "HAZARD",
              cost |-> (COST_HAZARD * z[4]) \div 1000,
              weather_factor |-> z[4]]
        ELSE cs[c]]

\* ---------------------------------------------------------------------
\* Hazard zones (HazardZone, HazardDetectionService)
\* ---------------------------------------------------------------------
\* HazardZone.__init__; severity is HazardLevel.value (NONE 0 .. CRITICAL 4),
\* cost_multiplier in thousandths
HazardZone(name, hazard_type, center_lat, center_lon, radius_deg, severity, active_months, cost_multiplier) ==
    [name |-> name, hazard_type |-> hazard_type, center_lat |-> center_lat,
     center_lon |-> center_lon, radius_deg |-> radius_deg, severity |-> severity,
     active_months |-> active_months, cost_multiplier |-> cost_multiplier]

\* self.hazard_zones after __init__
HAZARD_ZONES ==
    << HazardZone("Suez Canal Approach", "shallow_water", 1830, 1938, 30, 2, Months, 2000),
       HazardZone("Red Sea Narrows", "shallow_water", 1140, 2400, 60, 2, Months, 1800),
       HazardZone("Strait of Malacca", "shallow_water", 120, 6060, 90, 3, Months, 2500),
       HazardZone("Singapore Strait", "shallow_water", 78, 6228, 48, 3, Months, 2300),
       HazardZone("Sunda Strait", "shallow_water", -390, 6348, 60, 2, Months, 2000),
       HazardZone("English Channel", "shallow_water", 3000, -120, 90, 2, Months, 1800),
       HazardZone("Gulf of Mexico Shallows", "shallow_water", 1500, -5400, 180, 1, Months, 1300),
       HazardZone("Arabian Sea Southwest Monsoon", "monsoon", 720, 3900, 720, 3, {5, 6, 7, 8, 9}, 3500),
       HazardZone("Bay of Bengal Southwest Monsoon", "monsoon", 900, 5400, 600, 3, {5, 6, 7, 8, 9}, 3300),
       HazardZone("Eastern Indian Ocean Southwest Monsoon", "monsoon", 300, 6300, 480, 2, {5, 6, 7, 8, 9}, 2800),
       HazardZone("Arabian Sea Monsoon Transition", "monsoon", 720, 3900, 600, 2, {10, 11, 3, 4}, 2000),
       HazardZone("Bay of Bengal Cyclone Zone", "cyclone", 900, 5280, 480, 4, {5, 6, 9, 10, 11}, 5000),
       HazardZone("Arabian Sea Cyclone Zone", "cyclone", 720, 3720, 480, 4, {5, 6, 9, 10, 11}, 5000),
       HazardZone("Northwest Pacific Typhoon Zone", "cyclone", 1200, 7800, 900, 3, {6, 7, 8, 9, 10, 11}, 3500),
       HazardZone("Suez Canal TSS", "traffic_congestion", 1830, 1938, 60, 1, Months, 800),
       HazardZone("Singapore Strait TSS", "traffic_congestion", 78, 6228, 72, 1, Months, 850),
       HazardZone("Malacca Strait TSS", "traffic_congestion", 120, 6060, 90, 1, Months, 900),
       HazardZone("Arabian Sea Shipping Lanes", "traffic_congestion", 600, 3600, 180, 1, Months, 950),
       HazardZone("Gulf of Aden - Piracy Risk", "piracy", 750, 2880, 240, 2, Months, 1800),
       HazardZone("Malacca Strait - Piracy Risk", "piracy", 120, 6060, 120, 1, Months, 1300),
       HazardZone("Arctic Ice Zone", "ice", 4500, 0, 1200, 3, {1, 2, 3, 11, 12}, 4000),
       HazardZone("Southern Ocean Ice Zone", "ice", -3600, 0, 900, 2, {6, 7, 8, 9}, 2500) >>

\* contains_point: dist <= radius_deg
contains_point(z, lat, lon) ==
    (lat - z.center_lat) * (lat - z.center_lat) + (lon - z.center_lon) * (lon - z.center_lon)
        <= z.radius_deg * z.radius_deg

\* get_severity_for_point: <<severity value, cost multiplier>>.
\* severity_value = int(severity * (radius - dist) / radius) is the largest k
\* with dist * severity <= radius * (severity - k), compared on the squares;
\* the distance of the degraded multiplier is in tenths of an arc-minute.
get_severity_for_point(z, lat, lon) ==
    LET d2 == (lat - z.center_lat) * (lat - z.center_lat)
                + (lon - z.center_lon) * (lon - z.center_lon)
        r == z.radius_deg
        sev == z.severity
        dist == ISqrt(d2 * 100)
        proximity_factor == ((10 * r - dist) * 1000) \div (10 * r)
        ks == { k \in 0..sev : d2 * sev * sev <= r * r * (sev - k) * (sev - k) }
        severity_value == CHOOSE k \in ks : \A j \in ks : j <= k
    IN  IF d2 > r * r THEN <<0, 1000>>
        ELSE IF severity_value >= sev THEN <<sev, z.cost_multiplier>>
        ELSE IF severity_value = 0 THEN <<0, 1000>>
        ELSE <<severity_value,
               1000 + TruncDiv((z.cost_multiplier - 1000) * proximity_factor, 2000)>>

\* self.dynamic_hazards is a function from the hazard ids to a zone, or to
\* NoHazard for an id that is not a key
NoHazard == [name |-> ""]

\* get_all_hazards(current_month): the zones active in the month and every
\* dynamic hazard
get_all_hazards(month, dyn) ==
    { HAZARD_ZONES[i] : i \in { j \in DOMAIN HAZARD_ZONES : month \in HAZARD_ZONES[j].active_months } }
        \cup { dyn[id] : id \in { h \in DOMAIN dyn : dyn[h] # NoHazard } }

\* evaluate_point_hazard(lat, lon, current_month) on the grid cells cs and
\* the dynamic hazards dyn; hazards holds <<name, severity>> of each entry
evaluate_point_hazard(lat, lon, month, cs, dyn) ==
    IF is_point_on_land(lat, lon)
    THEN [is_hazardous |-> TRUE, cost_multiplier |-> INF, hazards |-> { <<"Land", 4>> }]
    ELSE LET shallow == { c \in get_cell_level1(cs, lat, lon) : cs[c].cell_type = "SHALLOW" }
             zones == { z \in get_all_hazards(month, dyn) :
                          /\ contains_point(z, lat, lon)
                          /\ get_severity_for_point(z, lat, lon)[1] # 0 }
             costs == {1000} \cup { cs[c].cost : c \in shallow }
                             \cup { get_severity_for_point(z, lat, lon)[2] : z \in zones }
         IN  [is_hazardous |-> shallow # {} \/ zones # {},
              cost_multiplier |-> CHOOSE m \in costs : \A x \in costs : x <= m,
              hazards |-> { <<"Shallow Water", 2>> : c \in shallow }
                            \cup { <<z.name, get_severity_for_point(z, lat, lon)[1]>> : z \in zones }]

\* evaluate_route_hazards: the frame before the loop, and the idle frame
RouteEvaluation(wps, month) ==
    [pc |-> "loop", waypoints |-> wps, current_month |-> month, index |-> 0,
     total_cost |-> 0, max_severity |-> 0, hazard_points |-> 0, active_dynamic |-> <<>>]
NoEvaluation == [RouteEvaluation(<<>>, 0) EXCEPT !.pc = "idle"]

\* inputs: zones given to add_hazard_zone directly (the arguments the
\* seasonal methods pass for the Arabian Sea, where the built cells lie)
HazardZoneArgs ==
    { <<720, 3720, 480, 4000>>, <<720, 3900, 600, 1500>>, <<600, 3600, 180, 900>> }
\* inputs: months of the seasonal methods and of an evaluation
HazardMonths == {1, 5, 10}
\* inputs: dynamic hazards, a cyclone reported at 12 N 62 E and its later
\* downgrade, filed under one id
DynamicIds == { "cyclone-01" }
DynamicZones ==
    { HazardZone("Cyclone 01", "cyclone", 720, 3720, 120, 4, Months, 5000),
      HazardZone("Cyclone 01", "cyclone", 720, 3720, 120, 2, Months, 1500) }
\* inputs: routes given to evaluate_route_hazards
HazardRoutes ==
    { << <<600, 3600>>, <<720, 3720>> >>, << <<720, 3720>>, <<1200, 4560>> >> }

\* ---------------------------------------------------------------------
\* Fuel model (fuel_model.py).  Speeds are whole knots, distances
\* hundredths of a nautical mile, weather factors hundredths, load factors
\* percent; tons come out in hundredths (the two decimals the code rounds
\* to), hours in tenths.  round() goes to the nearest; a value exactly
\* halfway between two decimals is rounded up here, where the binary
\* floating point of the code falls on either side (a difference of one
\* unit in the last decimal).
\* ---------------------------------------------------------------------

\* VesselSpecifications.SPECIFICATIONS: the vessels of the catalog whose
\* design speed is a whole number of knots
SPECIFICATIONS ==
    [ container_10000 |-> [ design_speed_knots |-> 19,
                            nominal_fuel_consumption_t_per_day |-> 220,
                            fuel_tank_capacity_t |-> 4750 ],
      bulk_50k        |-> [ design_speed_knots |-> 14,
                            nominal_fuel_consumption_t_per_day |-> 42,
                            fuel_tank_capacity_t |-> 2500 ],
      tanker_vlcc     |-> [ design_speed_knots |-> 15,
                            nominal_fuel_consumption_t_per_day |-> 210,
                            fuel_tank_capacity_t |-> 8000 ],
      roro            |-> [ design_speed_knots |-> 20,
                            nominal_fuel_consumption_t_per_day |-> 95,
                            fuel_tank_capacity_t |-> 2000 ] ]

\* tons of CO2 per ton of fuel burned, in hundredths
co2_per_fuel == 317

\* floor(x * y / d) for x, y >= 0 and d > 0, without forming x * y
MulDiv(x, y, d) ==
    (x \div d) * y + (x % d) * (y \div d) + ((x % d) * (y % d)) \div d

\* the speed factor of a resistance that grows with the square of the
\* speed ratio and not with its cube
Square(x) == x * x

\* speed_ratio ** 3, numerator and denominator apart
Cube(x) == x * x * x

\* FuelConsumptionModel.calculate_fuel_consumption: daily fuel and CO2,
\* each rounded to two decimals
calculate_fuel_consumption(vessel_type, speed_knots, weather_factor, load_factor) ==
    LET specs == SPECIFICATIONS[vessel_type]
        base_consumption == specs.nominal_fuel_consumption_t_per_day
        load_adjusted == 600 + 4 * load_factor
        \* weather_increased_consumption in 10^-5 t/day
        weather_increased_consumption ==
            MulDiv(base_consumption * load_adjusted * weather_factor,
                   Cube(speed_knots), Cube(specs.design_speed_knots))
        \* co2_emissions in 10^-4 t/day
        co2_emissions == ((weather_increased_consumption \div 10) * co2_per_fuel) \div 100
    IN  [ actual_consumption_t_day |-> (weather_increased_consumption + 500) \div 1000,
          co2_emissions_t_day |-> (co2_emissions + 50) \div 100 ]

\* FuelConsumptionModel.estimate_voyage_fuel
estimate_voyage_fuel(vessel_type, distance_nm, avg_speed_knots, weather_factor, load_factor) ==
    LET daily_consumption ==
            calculate_fuel_consumption(vessel_type, avg_speed_knots, weather_factor, load_factor)
        moving == avg_speed_knots > 0
        \* hours in hundredths, days in thousandths
        voyage_time_hours == IF moving THEN distance_nm \div avg_speed_knots ELSE 0
        voyage_time_days == IF moving THEN (distance_nm * 10) \div (24 * avg_speed_knots) ELSE 0
        \* tons in thousandths: daily tons * hours / 24
        total_fuel_tons ==
            IF moving
            THEN MulDiv(daily_consumption.actual_consumption_t_day, distance_nm,
                        240 * avg_speed_knots)
            ELSE 0
        total_co2_tons ==
            IF moving
            THEN MulDiv(daily_consumption.co2_emissions_t_day, distance_nm,
                        240 * avg_speed_knots)
            ELSE 0
    IN  [ vessel_type |-> vessel_type,
          distance_nm |-> distance_nm,
          avg_speed_knots |-> avg_speed_knots,
          weather_factor |-> weather_factor,
          load_factor |-> load_factor,
          estimated_time_days |-> (voyage_time_days + 5) \div 10,
          estimated_time_hours |-> (voyage_time_hours + 5) \div 10,
          total_fuel_tons |-> (total_fuel_tons + 5) \div 10,
          daily_consumption_tons |-> daily_consumption.actual_consumption_t_day,
          total_co2_tons |-> (total_co2_tons + 5) \div 10,
          daily_co2_tons |-> daily_consumption.co2_emissions_t_day,
          sufficient_fuel |->
              total_fuel_tons <= 1000 * SPECIFICATIONS[vessel_type].fuel_tank_capacity_t ]

\* no estimate made yet
NoVoyage ==
    [ estimate_voyage_fuel("container_10000", 0, 0, 0, 0) EXCEPT !.vessel_type = "" ]

\* the estimates asked for: 0.01, 0.5, 120 and 5000 nm; a ship standing
\* still, slow steaming and design speeds; calm and rough weather; ballast,
\* the planner's load and full load
FuelDistances == {1, 50, 12000, 500000}
FuelSpeeds == {0, 10, 14, 19}
FuelWeatherFactors == {100, 119}
FuelLoadFactors == {0, 85, 100}

\* ---------------------------------------------------------------------
\* Queries to the land oracle.  A point is (latN / den, lonN / den) in
\* arc-minutes.
\* ---------------------------------------------------------------------

\* the points asked about divide each polygon edge in EdgeSteps equal parts
EdgeSteps == 2

\* no point asked about yet
NoLandQuery == [ asked |-> FALSE, lat |-> 0, lon |-> 0, den |-> 1, on_land |-> FALSE ]

\* the points asked about: the vertices and the dividing points of every
\* edge of every polygon, a point inside India (20 N, 78 E), a point at sea
\* (20 N, 70 E) and a point half a minute west of the coast at 20.25 N
LandQueries ==
    { << EdgeSteps * LAND_POLYGONS[r][i][1]
             + t * (LAND_POLYGONS[r][i + 1][1] - LAND_POLYGONS[r][i][1]),
         EdgeSteps * LAND_POLYGONS[r][i][2]
             + t * (LAND_POLYGONS[r][i + 1][2] - LAND_POLYGONS[r][i][2]),
         EdgeSteps >> :
        r \in DOMAIN LAND_POLYGONS, i \in 1..(Len(LAND_POLYGONS[1]) - 1), t \in 0..(EdgeSteps - 1) }
    \cup { <<1200, 4680, 1>>, <<1200, 4200, 1>>, <<2430, 8714, 2>> }

\* ---------------------------------------------------------------------
\* Weather providers (real_time_weather.py).  Coordinates of a weather
\* request are thousandths of a degree, cache keys hundredths, times
\* seconds, wind speeds millionths of a knot, wave heights 10^-8 m.  Of a
\* sample the source, position, timestamp, wind speed and wave height are
\* kept; the wind direction and the fields that are constants are left out.
\* ---------------------------------------------------------------------

\* cache_duration of NOAAGFSProvider and of OpenWeatherMapProvider
NOAA_CACHE_DURATION == 3600
OWM_CACHE_DURATION == 600

\* the clock moves in steps of ClockStep seconds, up to MaxClock
ClockStep == 1800
MaxClock == 3600

\* round(x, 2), for x >= 0
Round2(x) == (x + 5) \div 10

\* _get_cache_key / the f"owm_..." key: the rounded coordinates
get_cache_key(lat, lon) == << Round2(lat), Round2(lon) >>

\* the points asked about: two that round to the same key (18.90, 72.80)
WeatherPoints == { <<18901, 72801>>, <<18904, 72804>> }

WeatherKeys == { get_cache_key(p[1], p[2]) : p \in WeatherPoints }

\* None
NoSample ==
    [ source |-> "None", latitude |-> 0, longitude |-> 0, timestamp |-> 0,
      wind_speed_knots |-> 0, wave_height_m |-> 0 ]

\* the forecast_hours asked for: now, and a day ahead
ForecastHours == { 0, 24 }

\* a key absent from a provider's cache.  forecast_hours is the argument of
\* the call that stored the entry; the cache of the code keeps the time
\* and the sample alone, the model adds it to tell what a cached sample
\* was fetched for
NoEntry == [ cached_time |-> -1, data |-> NoSample, forecast_hours |-> 0 ]

\* what the HTTP requests of a provider come back with: a parseable answer
\* (for NOAA the wind in mph of each 12-hour period, for OpenWeatherMap
\* the wind in m/s now), a status other than 200, an exception (timeout),
\* and for NOAA a forecast with no periods, on which _parse_forecast
\* raises AttributeError
NOAAResponses ==
    { [ kind |-> "ok", periods |-> <<10, 20, 30>> ], [ kind |-> "ok", periods |-> <<20>> ],
      [ kind |-> "status", periods |-> <<>> ], [ kind |-> "exception", periods |-> <<>> ],
      [ kind |-> "no_periods", periods |-> <<>> ] }
OWMResponses ==
    { [ kind |-> "ok", wind |-> 5 ], [ kind |-> "status", wind |-> 0 ],
      [ kind |-> "exception", wind |-> 0 ] }

\* settings.OPENWEATHER_API_KEY: the placeholder of config.py, or a key
ApiKeys == { "your-openweather-api-key", "k" }

\* random.uniform(-3, 3) knots and random.uniform(-0.5, 0.5) m (in tenths)
MockDraws == { <<-3, -5>>, <<3, 5>> }

\* _wind_to_wave_height / _estimate_wave_height
wind_to_wave_height(wind_speed_knots) ==
    IF wind_speed_knots < 3000000 THEN 0
    ELSE IF wind_speed_knots < 10000000 THEN wind_speed_knots * 5
    ELSE IF wind_speed_knots < 20000000
         THEN 50000000 + (wind_speed_knots - 10000000) * 10
    ELSE 150000000 + (wind_speed_knots - 20000000) * 15

\* _parse_forecast: the wind in mph of the period forecast_hours falls in
parse_forecast(periods, forecast_hours) ==
    periods[Min(forecast_hours \div 12, Len(periods) - 1) + 1]

\* NOAAGFSProvider.get_weather_point: the cache after the call, the
\* sample returned (the dict the cache holds), or None, and for a sample
\* that came from the cache the forecast_hours it was fetched for
noaa_get_weather_point(cache, lat, lon, forecast_hours, t, response) ==
    LET cache_key == get_cache_key(lat, lon)
        entry == cache[cache_key]
        wind_speed == parse_forecast(response.periods, forecast_hours) * 868976
        weather == [ source |-> "NOAA_GFS", latitude |-> 0, longitude |-> 0,
                     timestamp |-> t, wind_speed_knots |-> wind_speed,
                     wave_height_m |-> wind_to_wave_height(wind_speed) ]
    IN  IF entry.cached_time >= 0 /\ t - entry.cached_time < NOAA_CACHE_DURATION
        THEN [ cache |-> cache, weather |-> entry.data, cached_for |-> { entry.forecast_hours } ]
        ELSE IF response.kind = "ok"
        THEN [ cache |-> [ cache EXCEPT ![cache_key] =
                             [ cached_time |-> t, data |-> weather, forecast_hours |-> forecast_hours ] ],
               weather |-> weather, cached_for |-> {} ]
        ELSE [ cache |-> cache, weather |-> NoSample, cached_for |-> {} ]

\* OpenWeatherMapProvider.get_weather_point
owm_get_weather_point(cache, api_key, lat, lon, forecast_hours, t, response) ==
    LET cache_key == get_cache_key(lat, lon)
        entry == cache[cache_key]
        wind_speed == response.wind * 1943840
        weather == [ source |-> "OpenWeatherMap", latitude |-> lat, longitude |-> lon,
                     timestamp |-> t, wind_speed_knots |-> wind_speed,
                     wave_height_m |-> wind_to_wave_height(wind_speed) ]
    IN  IF api_key = "" \/ api_key = "your-openweather-api-key"
        THEN [ cache |-> cache, weather |-> NoSample, cached_for |-> {} ]
        ELSE IF entry.cached_time >= 0 /\ t - entry.cached_time < OWM_CACHE_DURATION
        THEN [ cache |-> cache, weather |-> entry.data, cached_for |-> { entry.forecast_hours } ]
        ELSE IF response.kind = "ok"
        THEN [ cache |-> [ cache EXCEPT ![cache_key] =
                             [ cached_time |-> t, data |-> weather, forecast_hours |-> forecast_hours ] ],
               weather |-> weather, cached_for |-> {} ]
        ELSE [ cache |-> cache, weather |-> NoSample, cached_for |-> {} ]

\* a fallback that gives nothing
no_weather(lat, lon, t, draw) == NoSample

\* RealTimeWeatherService._mock_weather
mock_weather(lat, lon, t, draw) ==
    LET wind_speed == 8000000 + (lat + 60000) * 125 + draw[1] * 1000000
        wave_height == 100000000 + ((lat + 60000) * 5000) \div 3 + draw[2] * 10000000
    IN  [ source |-> "MOCK", latitude |-> lat, longitude |-> lon, timestamp |-> t,
          wind_speed_knots |-> Max(0, wind_speed),
          wave_height_m |-> Max(50000000, wave_height) ]

\* RealTimeWeatherService.get_weather_point: the caches after the call,
\* what each provider tried returned, the sample returned, and when that
\* sample came from a provider's cache what it was fetched for.  The dict
\* a provider returns is the one its cache holds, so writing latitude and
\* longitude into it writes into the cache.
get_weather_point(caches, api_key, lat, lon, forecast_hours, t, noaa_response, owm_response, draw) ==
    LET cache_key == get_cache_key(lat, lon)
        noaa == noaa_get_weather_point(caches.noaa, lat, lon, forecast_hours, t, noaa_response)
        owm == owm_get_weather_point(caches.owm, api_key, lat, lon, forecast_hours, t, owm_response)
        noaa_weather == [ noaa.weather EXCEPT !.latitude = lat, !.longitude = lon ]
        owm_weather == [ owm.weather EXCEPT !.latitude = lat, !.longitude = lon ]
    IN  IF noaa.weather # NoSample
        THEN [ caches |-> [ caches EXCEPT
                              !.noaa = [ noaa.cache EXCEPT ![cache_key].data = noaa_weather ] ],
               returned |-> << noaa.weather >>,
               weather |-> noaa_weather,
               cached_for |-> noaa.cached_for ]
        ELSE IF owm.weather # NoSample
        THEN [ caches |-> [ caches EXCEPT
                              !.noaa = noaa.cache,
                              !.owm = [ owm.cache EXCEPT ![cache_key].data = owm_weather ] ],
               returned |-> << noaa.weather, owm.weather >>,
               weather |-> owm_weather,
               cached_for |-> owm.cached_for ]
        ELSE [ caches |-> [ caches EXCEPT !.noaa = noaa.cache, !.owm = owm.cache ],
               returned |-> << noaa.weather, owm.weather >>,
               weather |-> mock_weather(lat, lon, t, draw),
               cached_for |-> {} ]

\* no weather asked for yet
NoWeatherCall ==
    [ asked |-> FALSE, lat |-> 0, lon |-> 0, forecast_hours |-> 0, returned |-> << >>,
      weather |-> NoSample, cached_for |-> {} ]

\* ---------------------------------------------------------------------
\* GridCache (grid_cache.py): class attributes shared by every request.
\* An OceanGrid instance is named by its number in order of construction;
\* 0 is None.  Requests run the class methods statement by statement.
\* ---------------------------------------------------------------------

\* the requests that may be inside GridCache at once
GridCallers == {1, 2}

\* the methods a request may call
GridCacheMethods == { "get_grid_level1", "get_hazard_service", "initialize_all" }

\* a request outside GridCache; grid and service are what its last call
\* returned (the service is named by the grid it holds)
IdleCaller ==
    [ pc |-> "idle", after_grid |-> "", after_service |-> "", grid |-> 0, service |-> 0 ]

\* ---------------------------------------------------------------------
\* MaritimeAStar (maritime_astar.py).  Coordinates are hundredths of a
\* degree, the precision of the water-cell keys round(lat, 2); distances
\* are thousandths of a degree.
\* ---------------------------------------------------------------------

\* grid_resolution, 0.5 degree
GRID_RESOLUTION == 50
\* the padding of the bounds, 2.0 degrees
GRID_PADDING == 200
\* max_iterations of plan()
ASTAR_MAX_ITERATIONS == 10000

\* no instance yet
NoAStar ==
    [ pc |-> "none", start |-> <<0, 0>>, goal |-> <<0, 0>>, grid_resolution |-> 0,
      water_cells |-> {}, start_cell |-> <<0, 0>>, goal_cell |-> <<0, 0>>,
      open_set |-> {}, closed_set |-> {}, g_scores |-> <<>>, iterations |-> 0,
      path |-> <<>>, fallback |-> FALSE ]

\* the (start, goal) pairs given to MaritimeAStar: inland pairs whose
\* bounds hold no water cell, a few water cells in one corner, or water
\* on both coasts of the peninsula; pairs off the east and west coast;
\* pairs in the open Bay of Bengal
AStarRequests ==
    { [start |-> <<1900, 7990>>, goal |-> <<2000, 8000>>],
      [start |-> <<2083, 8200>>, goal |-> <<2110, 8200>>],
      [start |-> <<1400, 7710>>, goal |-> <<1370, 7787>>],
      [start |-> <<2000, 8323>>, goal |-> <<2100, 8350>>],
      [start |-> <<1476, 7820>>, goal |-> <<1320, 7760>>],
      [start |-> <<1719, 7558>>, goal |-> <<1597, 7400>>],
      [start |-> <<1599, 8088>>, goal |-> <<1700, 8100>>],
      [start |-> <<1690, 8300>>, goal |-> <<1574, 8314>>],
      [start |-> <<1634, 8700>>, goal |-> <<1590, 8700>>],
      [start |-> <<1358, 8700>>, goal |-> <<1604, 8700>>],
      [start |-> <<1400, 7680>>, goal |-> <<1592, 7500>>],
      [start |-> <<1530, 7890>>, goal |-> <<1700, 8040>>],
      [start |-> <<1500, 7860>>, goal |-> <<1700, 8100>>],
      [start |-> <<1201, 7650>>, goal |-> <<1369, 7800>>] }

\* LandDetectionService.is_point_on_land at a point in hundredths of a
\* degree: 3/5 of it is the arc-minute
is_land_cell(lat, lon) == is_point_on_land_q(3 * lat, 3 * lon, 5)

\* the values lo, lo + res, lo + 2 res, ... that pass `<= hi`.  The loop
\* adds floats, so when hi is a whole number of steps from lo the last sum
\* passes the test or not according to its rounding error (with_last)
GridLine(lo, hi, res, with_last) ==
    LET n == (hi - lo) \div res
        exact == (hi - lo) % res = 0
        last == IF exact /\ ~with_last THEN n - 1 ELSE n
    IN  { lo + i * res : i \in 0..last }

\* __init__ bounds and _build_water_grid
build_water_grid(from, to, res, last_row, last_col) ==
    LET min_lat == Min(from[1], to[1]) - GRID_PADDING
        max_lat == Max(from[1], to[1]) + GRID_PADDING
        min_lon == Min(from[2], to[2]) - GRID_PADDING
        max_lon == Max(from[2], to[2]) + GRID_PADDING
    IN  { c \in GridLine(min_lat, max_lat, res, last_row) \X GridLine(min_lon, max_lon, res, last_col) :
            ~is_land_cell(c[1], c[2]) }

\* _haversine: the planar distance in degrees, here in thousandths
astar_haversine(lat1, lon1, lat2, lon2) ==
    ISqrt(((lat2 - lat1) * (lat2 - lat1) + (lon2 - lon1) * (lon2 - lon1)) * 100)

\* _get_neighbors
get_water_neighbors(lat, lon, res, water_cells) ==
    { <<lat + dlat, lon + dlon>> : dlat \in {-res, 0, res}, dlon \in {-res, 0, res} }
        \cap (water_cells \ { <<lat, lon>> })

\* _snap_to_grid: the rounded point when it is a water cell (or when there
\* is no water cell at all), else a nearest water cell; among equally near
\* cells the one the iteration of the set meets first
snap_to_grid(lat, lon, res, water_cells) ==
    LET grid == << RoundHalfEven(lat, res) * res, RoundHalfEven(lon, res) * res >>
    IN  IF grid \in water_cells \/ water_cells = {} THEN { grid }
        ELSE { c \in water_cells :
                 \A o \in water_cells : D2(<<lat, lon>>, c) <= D2(<<lat, lon>>, o) }

\* 2^s modulo m
Pow2Mod(s, m) ==
    LET f[i \in 0..s] == IF i = 0 THEN 1 % m ELSE (2 * f[i - 1]) % m
    IN  f[s]

\* the binary exponent of the double nearest to k / 100, for 1 <= k / 100 < 256
FloatExponent(k) == CHOOSE e \in 0..7 : 100 * (2 ^ e) <= k /\ k < 100 * (2 ^ (e + 1))

\* the rounding error of the double nearest to k / 100 (round to nearest,
\* ties to even), in units of 2^-52 / 100: k 2^(52-e) = 100 q + r, and the
\* 53-bit significand is q or q + 1
FloatError(k) ==
    LET e == FloatExponent(k)
        m == ((k % 200) * Pow2Mod(52 - e, 200)) % 200
        r == m % 100
        q_odd == m >= 100
        rounding == IF r < 50 THEN -r
               ELSE IF r > 50 THEN 100 - r
               ELSE IF q_odd THEN 50 ELSE -50
    IN  rounding * (2 ^ e)

\* abs(a - b) < res on the doubles nearest to a / 100 and b / 100, for a
\* resolution that is a double itself: the subtraction of two doubles
\* within a factor two of each other is exact, so at a distance of one
\* resolution the test compares the rounding errors of a and b
float_abs_diff_less(a, b, res) ==
    LET hi == Max(a, b)
        lo == Min(a, b)
    IN  IF hi - lo # res THEN hi - lo < res
        ELSE FloatError(hi) < FloatError(lo)

\* the goal test of plan()
goal_reached(current, goal_cell, res) ==
    /\ float_abs_diff_less(current.lat, goal_cell[1], res)
    /\ float_abs_diff_less(current.lon, goal_cell[2], res)

\* Node; parent is <<>> or the one-element sequence of the parent node
AStarNode(f_score, g_score, lat, lon, parent) ==
    [ f_score |-> f_score, g_score |-> g_score, lat |-> lat, lon |-> lon, parent |-> parent ]

\* _reconstruct_path
RECURSIVE reconstruct_path(_)
reconstruct_path(node) ==
    IF node.parent = <<>> THEN << <<node.lat, node.lon>> >>
    ELSE Append(reconstruct_path(node.parent[1]), <<node.lat, node.lon>>)

\* the neighbours of current that plan() pushes: not closed, and new or
\* reached more cheaply than before
Improved(a, current) ==
    { n \in get_water_neighbors(current.lat, current.lon, a.grid_resolution, a.water_cells) :
        /\ n \notin a.closed_set \cup { <<current.lat, current.lon>> }
        /\ \/ n \notin DOMAIN a.g_scores
           \/ current.g_score + astar_haversine(current.lat, current.lon, n[1], n[2]) < a.g_scores[n] }

\* ---------------------------------------------------------------------
\* HTTP entry points (api/routes/routes.py)
\* ---------------------------------------------------------------------

\* -90 <= lat <= 90 and -180 <= lon <= 180, in arc-minutes
InDomain(p) ==
    /\ -90 * 60 <= p[1] /\ p[1] <= 90 * 60
    /\ -180 * 60 <= p[2] /\ p[2] <= 180 * 60

\* the coordinates sent to the endpoints: points off the west coast of
\* India (the first is within 0.2 degrees of the port of Mumbai), points
\* around 90 N on the meridian of 72.5 E (89.9 N inside the domain; 90.1 N,
\* 90.5 N and 90.6 N outside it), a point by the port of Chennai with one
\* at sea east of it, and a point by the port of Kolkata with one at sea
\* south of it
ApiCoordinates ==
    << { <<1140, 4374>>, <<1134, 4338>>, <<1134, 4348>>, <<1100, 4376>>, <<1100, 4350>>,
         <<894, 4402>> },
       { <<5394, 4350>>, <<5406, 4350>>, <<5430, 4350>>, <<5436, 4356>> },
       { <<792, 4818>>, <<780, 4836>> },
       { <<1350, 5304>>, <<1200, 5340>> } >>

\* the query parameters of a request: start and goal from the same region
ApiRequests ==
    { [start |-> s, goal |-> g] :
        <<s, g>> \in UNION { ApiCoordinates[i] \X ApiCoordinates[i] : i \in DOMAIN ApiCoordinates } }

\* ---------------------------------------------------------------------
\* State machine
\* ---------------------------------------------------------------------
planner_vars == << pc, err, request, current_month, start, goal, max_iterations, step_size_nm,
           tree_start, tree_goal, connection_point, best_path_cost, iteration,
           has_grid, waypoints, planner, result, prev_request, prev_result,
           ds, ds_iterations, ds_caller, ds_path, ds_plan_path, ds_changed, ds_calls >>

hazard_vars == << level1_cells, dynamic_hazards, ev >>
fuel_vars == << voyage >>
land_vars == << land_query >>
weather_vars == << weather_service, weather_cache, now, weather_call >>
gridcache_vars == << grid_cache, grids_built, callers >>
astar_vars == << astar >>
service_vars == << hazard_vars, fuel_vars, land_vars, weather_vars, gridcache_vars, astar_vars >>
not_hazard_vars == << planner_vars, fuel_vars, land_vars, weather_vars, gridcache_vars, astar_vars >>
not_fuel_vars == << planner_vars, hazard_vars, land_vars, weather_vars, gridcache_vars, astar_vars >>
not_land_vars == << planner_vars, hazard_vars, fuel_vars, weather_vars, gridcache_vars, astar_vars >>
not_weather_vars == << planner_vars, hazard_vars, fuel_vars, land_vars, gridcache_vars, astar_vars >>
not_gridcache_vars == << planner_vars, hazard_vars, fuel_vars, land_vars, weather_vars, astar_vars >>
not_astar_vars == << planner_vars, hazard_vars, fuel_vars, land_vars, weather_vars, gridcache_vars >>

vars == << planner_vars, service_vars >>

rrt_vars == << tree_start, tree_goal, connection_point, best_path_cost, iteration, has_grid >>
route_vars == << request, current_month, start, goal, max_iterations, step_size_nm >>
dstar_vars == << ds, ds_iterations, ds_caller >>
dstar_results == << ds_path, ds_plan_path, ds_changed, ds_calls >>
history == << prev_request, prev_result >>

Init ==
    /\ pc = "idle"
    /\ err = ""
    /\ request = NoRequest
    /\ current_month = 1
    /\ start = <<0, 0>>
    /\ goal = <<0, 0>>
    /\ max_iterations = 0
    /\ step_size_nm = 0
    /\ tree_start = {}
    /\ tree_goal = {}
    /\ connection_point = <<>>
    /\ best_path_cost = INF
    /\ iteration = 0
    /\ has_grid = FALSE
    /\ waypoints = <<>>
    /\ planner = ""
    /\ result = NoResult
    /\ prev_request = NoRequest
    /\ prev_result = NoResult
    /\ ds = NoDStar
    /\ ds_iterations = 0
    /\ ds_caller = ""
    /\ ds_path = <<>>
    /\ ds_plan_path = <<>>
    /\ ds_changed = <<>>
    /\ ds_calls = 0
    /\ level1_cells = [c \in Level1Keys |-> ClassifyLevel1(c)]
    /\ dynamic_hazards = [id \in DynamicIds |-> NoHazard]
    /\ ev = NoEvaluation
    /\ voyage = NoVoyage
    /\ land_query = NoLandQuery
    /\ weather_service = [ created |-> FALSE, api_key |-> "" ]
    /\ weather_cache = [ noaa |-> [ k \in WeatherKeys |-> NoEntry ], owm |-> [ k \in WeatherKeys |-> NoEntry ] ]
    /\ now = 0
    /\ weather_call = NoWeatherCall
    /\ grid_cache = [ grid_level1 |-> 0, hazard_service |-> 0, initialized |-> FALSE ]
    /\ grids_built = 0
    /\ callers = [ t \in GridCallers |-> IdleCaller ]
    /\ astar = NoAStar

\* plan_route(r) called in month m, up to the construction of the sampling
\* planner
BeginRequest(r, m) ==
    /\ LET s == SnapEndpoint(r.start)
           g == SnapEndpoint(r.goal)
       IN  /\ request' = r
           /\ current_month' = m
           /\ start' = s
           /\ goal' = g
           /\ max_iterations' = AdaptiveParams(s, g).max_iterations
           /\ step_size_nm' = AdaptiveParams(s, g).step_size_nm
           /\ tree_start' = { TreeNode(s[1], s[2], <<>>, 0) }
           /\ tree_goal' = { TreeNode(g[1], g[2], <<>>, 0) }
    /\ connection_point' = <<>>
    /\ best_path_cost' = INF
    /\ iteration' = 0
    /\ has_grid' = FALSE
    /\ waypoints' = <<>>
    /\ planner' = "rrt_star"
    /\ result' = NoResult
    /\ err' = ""
    /\ pc' = "rrt"
    /\ UNCHANGED << dstar_vars, dstar_results, service_vars >>

PlanRouteBegin ==
    /\ pc = "idle"
    /\ \E r \in RouteRequests, m \in RequestMonths : BeginRequest(r, m)
    /\ UNCHANGED history

\* every outcome of one iteration of the loop of HybridBidirectionalRRTStar.plan
RRTIteration ==
    UNION { IF ~d1.ok
            THEN { [ok |-> FALSE, ts |-> tree_start, tg |-> tree_goal,
                    conn |-> connection_point, best |-> best_path_cost, grid |-> TRUE] }
            ELSE UNION { UNION {
                   IF ~d2.ok
                   THEN { [ok |-> FALSE, ts |-> s1.ts, tg |-> s1.tg,
                           conn |-> s1.conn, best |-> s1.best, grid |-> TRUE] }
                   ELSE { [ok |-> TRUE, ts |-> s2.ts, tg |-> s2.tg, conn |-> s2.conn,
                           best |-> s2.best,
                           grid |-> has_grid \/ d1.sampled \/ d2.sampled]
                          : s2 \in GoalSide(s1.ts, s1.tg, s1.conn, s1.best, d2.p,
                                            step_size_nm, current_month) }
                   : d2 \in Draw(start, ~(has_grid \/ d1.sampled)) }
                 : s1 \in StartSide(tree_start, tree_goal, connection_point,
                                    best_path_cost, d1.p, step_size_nm, current_month) }
          : d1 \in Draw(goal, ~has_grid) }

RRTIterate ==
    /\ pc = "rrt"
    /\ iteration < Min(max_iterations, MaxIterations)
    /\ \E o \in RRTIteration :
         /\ tree_start' = o.ts
         /\ tree_goal' = o.tg
         /\ connection_point' = o.conn
         /\ best_path_cost' = o.best
         /\ has_grid' = o.grid
         /\ pc' = IF o.ok THEN "rrt" ELSE "error"
         /\ err' = IF o.ok THEN "" ELSE "UnboundLocalError"
    /\ iteration' = iteration + 1
    /\ UNCHANGED << service_vars, route_vars, waypoints, planner, result, history,
                    dstar_vars, dstar_results >>

\* HybridBidirectionalRRTStar.plan after the loop: partial connection,
\* reconstruction, return
RRTFinish ==
    /\ pc = "rrt"
    /\ iteration >= Min(max_iterations, MaxIterations)
    /\ \E conn \in (IF connection_point # <<>> THEN { connection_point }
                    ELSE IF PartialConnections(tree_start, tree_goal, current_month) # {}
                    THEN PartialConnections(tree_start, tree_goal, current_month)
                    ELSE { <<>> }) :
         /\ connection_point' = conn
         /\ best_path_cost' =
              IF conn = <<>> \/ connection_point # <<>> THEN best_path_cost
              ELSE conn[1].cost + conn[2].cost
                     + segment_cost(conn[1].lat, conn[1].lon, conn[2].lat, conn[2].lon,
                                    current_month)
         /\ waypoints' = IF conn = <<>> THEN <<>>
                         ELSE ReconstructPath(conn, tree_start, tree_goal)
    /\ pc' = "rrt_done"
    /\ UNCHANGED << service_vars, err, route_vars, tree_start, tree_goal, iteration, has_grid, planner, result,
                    history, dstar_vars, dstar_results >>

\* variant of DStarFallback: the planner is built from the goal to the start
DStarFallbackSwapped ==
    /\ pc = "rrt_done"
    /\ Len(waypoints) < 2
    /\ ds' = DStarInit(goal, start, step_size_nm,
                       Min(max_iterations \div 2, MaxDStarIterations))
    /\ ds_iterations' = 0
    /\ ds_caller' = "plan_route"
    /\ planner' = "d_star"
    /\ pc' = "dstar"
    /\ UNCHANGED << service_vars, err, route_vars, rrt_vars, waypoints, result, history, dstar_results >>

\* plan_route: the sampling planner returned fewer than 2 waypoints, so the
\* next planner is constructed and its plan() entered
DStarFallback ==
    /\ pc = "rrt_done"
    /\ Len(waypoints) < 2
    /\ ds' = DStarInit(start, goal, step_size_nm,
                       Min(max_iterations \div 2, MaxDStarIterations))
    /\ ds_iterations' = 0
    /\ ds_caller' = "plan_route"
    /\ planner' = "d_star"
    /\ pc' = "dstar"
    /\ UNCHANGED << service_vars, err, route_vars, rrt_vars, waypoints, result, history, dstar_results >>

\* one iteration of the loop of DStar._compute_shortest_path
DStarStep ==
    /\ pc = "dstar"
    /\ LoopCondition(ds, ds_iterations)
    /\ ds' = ComputeStep(ds)
    /\ ds_iterations' = ds_iterations + 1
    /\ UNCHANGED << service_vars, pc, err, route_vars, rrt_vars, waypoints, planner, result, history,
                    ds_caller, dstar_results >>

\* plan() returns to plan_route
PlanRouteDStarReturn ==
    /\ pc = "dstar"
    /\ ds_caller = "plan_route"
    /\ ~LoopCondition(ds, ds_iterations)
    /\ LET returned == PlanReturn(ds)
       IN  /\ ds' = returned.d
           /\ waypoints' = returned.path
    /\ pc' = "dstar_done"
    /\ UNCHANGED << service_vars, err, route_vars, rrt_vars, planner, result, history, ds_iterations,
                    ds_caller, dstar_results >>

\* plan_route from the check of the waypoints to the return
PlanRouteFinish ==
    /\ \/ pc = "rrt_done" /\ Len(waypoints) >= 2
       \/ pc = "dstar_done"
    /\ LET interpolated == interpolate_route(waypoints, NUM_POINTS)
           total_distance_nm == TotalDistance(interpolated)
       IN  IF NoValidRoute(waypoints, interpolated.points)
           THEN /\ pc' = "error"
                /\ err' = "ValueError"
                /\ result' = NoResult
           ELSE IF total_distance_nm = 0
           THEN /\ pc' = "error"
                /\ err' = "ZeroDivisionError"
                /\ result' = NoResult
           ELSE /\ pc' = "done"
                /\ err' = ""
                /\ result' = [den |-> interpolated.den,
                              interpolated |-> interpolated.points,
                              waypoints |-> RouteSegments(interpolated),
                              total_distance_nm |-> total_distance_nm]
    /\ UNCHANGED << service_vars, route_vars, rrt_vars, waypoints, planner, history,
                    dstar_vars, dstar_results >>

\* DStar(start, goal, step_size_nm, max_iterations) built by a caller
NewDStar ==
    /\ pc = "idle"
    /\ \E s \in DStarStarts, g \in DStarGoals, step \in DStarSteps, budget \in DStarBudgets :
         ds' = DStarInit(s, g, step, budget)
    /\ ds_iterations' = 0
    /\ ds_caller' = ""
    /\ ds_path' = <<>>
    /\ ds_plan_path' = <<>>
    /\ ds_changed' = <<>>
    /\ ds_calls' = 0
    /\ pc' = "dstar_idle"
    /\ UNCHANGED << service_vars, err, route_vars, rrt_vars, waypoints, planner, result, history >>

\* plan() is entered
DStarPlan ==
    /\ pc = "dstar_idle"
    /\ ds_calls = 0
    /\ ds_iterations' = 0
    /\ ds_caller' = "plan"
    /\ pc' = "dstar"
    /\ UNCHANGED << service_vars, err, route_vars, rrt_vars, waypoints, planner, result, history,
                    ds, dstar_results >>

\* replan(changed_obstacles) is entered, up to the shortest-path loop
DStarReplan ==
    /\ pc = "dstar_idle"
    /\ ds_calls >= 1
    /\ ds_calls <= MaxReplans
    /\ \E changed_obstacles \in ChangedObstacles :
         /\ ds' = ReplanUpdate(ds, changed_obstacles, 1)
         /\ ds_changed' = changed_obstacles
    /\ ds_iterations' = 0
    /\ ds_caller' = "replan"
    /\ pc' = "dstar"
    /\ UNCHANGED << service_vars, err, route_vars, rrt_vars, waypoints, planner, result, history,
                    ds_path, ds_plan_path, ds_calls >>

\* plan() or replan() returns to its caller
DStarReturn ==
    /\ pc = "dstar"
    /\ ds_caller \in {"plan", "replan"}
    /\ ~LoopCondition(ds, ds_iterations)
    /\ LET returned == PlanReturn(ds)
       IN  /\ ds' = returned.d
           /\ ds_path' = returned.path
           /\ ds_plan_path' = IF ds_caller = "plan" THEN returned.path ELSE ds_plan_path
    /\ ds_calls' = ds_calls + 1
    /\ pc' = "dstar_idle"
    /\ UNCHANGED << service_vars, err, route_vars, rrt_vars, waypoints, planner, result, history,
                    ds_iterations, ds_caller, ds_changed >>

Next ==
    \/ PlanRouteBegin
    \/ RRTIterate
    \/ RRTFinish
    \/ DStarFallback
    \/ DStarStep
    \/ PlanRouteDStarReturn
    \/ PlanRouteFinish
    \/ NewDStar
    \/ DStarPlan
    \/ DStarReplan
    \/ DStarReturn

Spec == Init /\ [][Next]_vars

\* the request just served is sent again in the same month; the first
\* request and its answer are remembered
Repeat ==
    /\ pc = "done"
    /\ prev_request = NoRequest
    /\ prev_request' = [start |-> request.start, goal |-> request.goal,
                        month |-> current_month]
    /\ prev_result' = result
    /\ BeginRequest(request, current_month)

NextTwoRuns ==
    \/ PlanRouteBegin
    \/ RRTIterate
    \/ RRTFinish
    \/ DStarFallback
    \/ DStarStep
    \/ PlanRouteDStarReturn
    \/ PlanRouteFinish
    \/ Repeat

SpecTwoRuns == Init /\ [][NextTwoRuns]_vars

\* ---------------------------------------------------------------------
\* The Level-1 grid and the hazard service, shared by every caller
\* ---------------------------------------------------------------------
\* OceanGrid.add_hazard_zone
AddHazardZone ==
    /\ \E z \in HazardZoneArgs : level1_cells' = add_hazard_zone(level1_cells, z)
    /\ UNCHANGED << dynamic_hazards, ev, not_hazard_vars >>

\* OceanGrid.add_monsoon_zones(current_month)
AddMonsoonZones ==
    /\ \E current_month_arg \in HazardMonths :
          level1_cells' =
              IF current_month_arg \in {5, 6, 7, 8, 9}
              THEN add_hazard_zone(add_hazard_zone(add_hazard_zone(level1_cells,
                       <<720, 3900, 900, 3000>>), <<900, 5400, 720, 2800>>),
                       <<300, 6300, 600, 2500>>)
              ELSE IF current_month_arg \in {10, 11, 3, 4}
              THEN add_hazard_zone(level1_cells, <<720, 3900, 600, 1500>>)
              ELSE level1_cells
    /\ UNCHANGED << dynamic_hazards, ev, not_hazard_vars >>

\* OceanGrid.add_cyclone_zones(current_month): Bay of Bengal, then Arabian Sea
AddCycloneZones ==
    /\ \E current_month_arg \in HazardMonths :
          LET bengal == IF current_month_arg \in {5, 6, 9, 10}
                        THEN add_hazard_zone(level1_cells, <<900, 5280, 480, 4000>>)
                        ELSE level1_cells
          IN  level1_cells' =
                  IF current_month_arg \in {5, 6, 9, 10, 11}
                  THEN add_hazard_zone(bengal, <<720, 3720, 480, 4000>>)
                  ELSE bengal
    /\ UNCHANGED << dynamic_hazards, ev, not_hazard_vars >>

\* OceanGrid.add_traffic_separation_schemes: Suez, Singapore, Malacca and
\* the Arabian Sea lanes
AddTrafficSeparationSchemes ==
    /\ level1_cells' =
          add_hazard_zone(add_hazard_zone(add_hazard_zone(add_hazard_zone(level1_cells,
              <<1830, 1938, 120, 800>>), <<78, 6228, 90, 800>>), <<120, 6060, 120, 800>>),
              <<600, 3600, 180, 900>>)
    /\ UNCHANGED << dynamic_hazards, ev, not_hazard_vars >>

\* HazardDetectionService.add_dynamic_hazard
AddDynamicHazard ==
    /\ \E id \in DynamicIds, hazard \in DynamicZones :
          dynamic_hazards' = [dynamic_hazards EXCEPT ![id] = hazard]
    /\ UNCHANGED << level1_cells, ev, not_hazard_vars >>

\* HazardDetectionService.remove_dynamic_hazard
RemoveDynamicHazard ==
    /\ \E id \in DynamicIds :
          dynamic_hazards' = [dynamic_hazards EXCEPT ![id] = NoHazard]
    /\ UNCHANGED << level1_cells, ev, not_hazard_vars >>

\* evaluate_route_hazards is called
EvaluateRouteBegin ==
    /\ ev.pc \in {"idle", "done"}
    /\ \E wps \in HazardRoutes, m \in HazardMonths : ev' = RouteEvaluation(wps, m)
    /\ UNCHANGED << level1_cells, dynamic_hazards, not_hazard_vars >>

\* evaluate_route_hazards: one pass of the loop; the next waypoint is
\* evaluated against the hazards held at that moment (active_dynamic keeps
\* the dynamic hazards each call of get_all_hazards returned)
EvaluateRouteStep ==
    /\ ev.pc = "loop"
    /\ ev.index < Len(ev.waypoints)
    /\ LET p == ev.waypoints[ev.index + 1]
           evaluation == evaluate_point_hazard(p[1], p[2], ev.current_month,
                                               level1_cells, dynamic_hazards)
           sevs == {ev.max_severity} \cup { h[2] : h \in evaluation.hazards }
       IN  ev' = [ev EXCEPT
                    !.index = @ + 1,
                    !.total_cost = Add(@, evaluation.cost_multiplier),
                    !.hazard_points = IF evaluation.is_hazardous THEN @ + 1 ELSE @,
                    !.max_severity = CHOOSE m \in sevs : \A x \in sevs : x <= m,
                    !.active_dynamic =
                        Append(@, { dynamic_hazards[id] :
                                      id \in { h \in DOMAIN dynamic_hazards :
                                                 dynamic_hazards[h] # NoHazard } })]
    /\ UNCHANGED << level1_cells, dynamic_hazards, not_hazard_vars >>

\* evaluate_route_hazards returns its summary
EvaluateRouteReturn ==
    /\ ev.pc = "loop"
    /\ ev.index = Len(ev.waypoints)
    /\ ev' = [ev EXCEPT !.pc = "done"]
    /\ UNCHANGED << level1_cells, dynamic_hazards, not_hazard_vars >>

NextHazards ==
    \/ AddHazardZone
    \/ AddMonsoonZones
    \/ AddCycloneZones
    \/ AddTrafficSeparationSchemes
    \/ AddDynamicHazard
    \/ RemoveDynamicHazard
    \/ EvaluateRouteBegin
    \/ EvaluateRouteStep
    \/ EvaluateRouteReturn

SpecHazards == Init /\ [][NextHazards]_vars

\* ---------------------------------------------------------------------
\* Fuel estimates
\* ---------------------------------------------------------------------

\* a caller (plan_route, the fuel endpoints) asks for a voyage estimate
EstimateVoyageFuel ==
    /\ \E vessel_type \in DOMAIN SPECIFICATIONS, distance_nm \in FuelDistances,
          avg_speed_knots \in FuelSpeeds, weather_factor \in FuelWeatherFactors,
          load_factor \in FuelLoadFactors :
            voyage' = estimate_voyage_fuel(vessel_type, distance_nm, avg_speed_knots,
                                           weather_factor, load_factor)
    /\ UNCHANGED not_fuel_vars

NextFuel == EstimateVoyageFuel

SpecFuel == Init /\ [][NextFuel]_vars

\* ---------------------------------------------------------------------
\* Land oracle queries
\* ---------------------------------------------------------------------

\* LandDetectionService.is_point_on_land(lat, lon)
IsPointOnLand ==
    /\ \E q \in LandQueries :
          land_query' = [ asked |-> TRUE, lat |-> q[1], lon |-> q[2], den |-> q[3],
                          on_land |-> is_point_on_land_q(q[1], q[2], q[3]) ]
    /\ UNCHANGED not_land_vars

NextLand == IsPointOnLand

SpecLand == Init /\ [][NextLand]_vars

\* ---------------------------------------------------------------------
\* Weather service
\* ---------------------------------------------------------------------

\* get_weather_service(): the singleton is built on the first call, with
\* the API key of the settings
GetWeatherService ==
    /\ ~weather_service.created
    /\ \E api_key \in ApiKeys :
          weather_service' = [ created |-> TRUE, api_key |-> api_key ]
    /\ UNCHANGED << weather_cache, now, weather_call, not_weather_vars >>

\* time passes
ClockAdvance ==
    /\ now + ClockStep <= MaxClock
    /\ now' = now + ClockStep
    /\ UNCHANGED << weather_service, weather_cache, weather_call, not_weather_vars >>

\* RealTimeWeatherService.get_weather_point(lat, lon, forecast_hours)
GetWeatherPoint ==
    /\ weather_service.created
    /\ \E p \in WeatherPoints, forecast_hours \in ForecastHours, noaa_response \in NOAAResponses,
          owm_response \in OWMResponses, draw \in MockDraws :
          LET r == get_weather_point(weather_cache, weather_service.api_key, p[1], p[2], forecast_hours,
                                     now, noaa_response, owm_response, draw)
          IN  /\ weather_cache' = r.caches
              /\ weather_call' = [ asked |-> TRUE, lat |-> p[1], lon |-> p[2],
                                   forecast_hours |-> forecast_hours,
                                   returned |-> r.returned, weather |-> r.weather,
                                   cached_for |-> r.cached_for ]
    /\ UNCHANGED << weather_service, now, not_weather_vars >>

NextWeather == GetWeatherService \/ ClockAdvance \/ GetWeatherPoint

SpecWeather == Init /\ [][NextWeather]_vars

\* ---------------------------------------------------------------------
\* GridCache
\* ---------------------------------------------------------------------

\* a request enters one of the class methods
CallGridCache(t) ==
    /\ callers[t].pc = "idle"
    /\ \E method \in GridCacheMethods :
          callers' = [ callers EXCEPT ![t] =
              [ IdleCaller EXCEPT
                  !.pc = CASE method = "get_grid_level1" -> "grid_check"
                           [] method = "get_hazard_service" -> "service_check"
                           [] OTHER -> "init_check",
                  !.after_grid = "return",
                  !.after_service = "return" ] ]
    /\ UNCHANGED << grid_cache, grids_built, not_gridcache_vars >>

\* GridCache.get_grid_level1: the test, the construction with the
\* assignment, and the return, which reads the attribute again
GetGridLevel1(t) ==
    /\ \/ /\ callers[t].pc = "grid_check"
          /\ callers' = [ callers EXCEPT ![t].pc =
                            IF grid_cache.grid_level1 = 0 THEN "grid_build" ELSE "grid_return" ]
          /\ UNCHANGED << grid_cache, grids_built >>
       \/ /\ callers[t].pc = "grid_build"
          /\ grids_built' = grids_built + 1
          /\ grid_cache' = [ grid_cache EXCEPT !.grid_level1 = grids_built + 1 ]
          /\ callers' = [ callers EXCEPT ![t].pc = "grid_return" ]
       \/ /\ callers[t].pc = "grid_return"
          /\ callers' = [ callers EXCEPT
                ![t].grid = grid_cache.grid_level1,
                ![t].pc = CASE callers[t].after_grid = "return" -> "idle"
                            [] callers[t].after_grid = "service" -> "service_build"
                            [] OTHER -> "service_check" ]
          /\ UNCHANGED << grid_cache, grids_built >>
    /\ UNCHANGED not_gridcache_vars

\* GridCache.get_hazard_service: the test (followed by the call of
\* get_grid_level1), the construction of HazardDetectionService(grid) with
\* the assignment, and the return
GetHazardService(t) ==
    /\ \/ /\ callers[t].pc = "service_check"
          /\ callers' = [ callers EXCEPT
                ![t].pc = IF grid_cache.hazard_service = 0 THEN "grid_check"
                          ELSE "service_return",
                ![t].after_grid = IF grid_cache.hazard_service = 0 THEN "service"
                                  ELSE callers[t].after_grid ]
          /\ UNCHANGED grid_cache
       \/ /\ callers[t].pc = "service_build"
          /\ grid_cache' = [ grid_cache EXCEPT !.hazard_service = callers[t].grid ]
          /\ callers' = [ callers EXCEPT ![t].pc = "service_return" ]
       \/ /\ callers[t].pc = "service_return"
          /\ callers' = [ callers EXCEPT
                ![t].service = grid_cache.hazard_service,
                ![t].pc = IF callers[t].after_service = "return" THEN "idle" ELSE "init_set" ]
          /\ UNCHANGED grid_cache
    /\ UNCHANGED << grids_built, not_gridcache_vars >>

\* GridCache.initialize_all: the test of _initialized, get_grid_level1(),
\* get_hazard_service(), and the assignment of _initialized
InitializeAll(t) ==
    /\ \/ /\ callers[t].pc = "init_check"
          /\ callers' = [ callers EXCEPT
                ![t].pc = IF grid_cache.initialized THEN "idle" ELSE "grid_check",
                ![t].after_grid = "init",
                ![t].after_service = "init" ]
          /\ UNCHANGED grid_cache
       \/ /\ callers[t].pc = "init_set"
          /\ grid_cache' = [ grid_cache EXCEPT !.initialized = TRUE ]
          /\ callers' = [ callers EXCEPT ![t].pc = "idle" ]
    /\ UNCHANGED << grids_built, not_gridcache_vars >>

\* GridCache.clear_cache, called while no request is inside GridCache; the
\* count of constructions and what the requests hold start afresh
ClearCache ==
    /\ \A t \in GridCallers : callers[t].pc = "idle"
    /\ \E t \in GridCallers : callers[t] # IdleCaller
    /\ grid_cache' = [ grid_level1 |-> 0, hazard_service |-> 0, initialized |-> FALSE ]
    /\ grids_built' = 0
    /\ callers' = [ t \in GridCallers |-> IdleCaller ]
    /\ UNCHANGED not_gridcache_vars

NextGridCache ==
    \/ \E t \in GridCallers :
          \/ CallGridCache(t)
          \/ GetGridLevel1(t)
          \/ GetHazardService(t)
          \/ InitializeAll(t)
    \/ ClearCache

SpecGridCache == Init /\ [][NextGridCache]_vars

\* ---------------------------------------------------------------------
\* MaritimeAStar
\* ---------------------------------------------------------------------

\* MaritimeAStar(start, goal): __init__ with _build_water_grid
MaritimeAStarNew ==
    /\ astar.pc \in { "none", "done" }
    /\ \E req \in AStarRequests, last_row \in BOOLEAN, last_col \in BOOLEAN :
          astar' = [ NoAStar EXCEPT
                       !.pc = "built",
                       !.start = req.start,
                       !.goal = req.goal,
                       !.grid_resolution = GRID_RESOLUTION,
                       !.water_cells = build_water_grid(req.start, req.goal, GRID_RESOLUTION, last_row, last_col) ]
    /\ UNCHANGED not_astar_vars

\* plan(), up to the loop: both ends snapped, the start node queued
AStarPlanBegin ==
    /\ astar.pc = "built"
    /\ \E start_cell \in snap_to_grid(astar.start[1], astar.start[2], astar.grid_resolution, astar.water_cells),
          goal_cell \in snap_to_grid(astar.goal[1], astar.goal[2], astar.grid_resolution, astar.water_cells) :
          astar' = [ astar EXCEPT
                       !.pc = "search",
                       !.start_cell = start_cell,
                       !.goal_cell = goal_cell,
                       !.open_set = { AStarNode(astar_haversine(start_cell[1], start_cell[2], goal_cell[1], goal_cell[2]),
                                                0, start_cell[1], start_cell[2], <<>>) },
                       !.g_scores = [ c \in { start_cell } |-> 0 ] ]
    /\ UNCHANGED not_astar_vars

\* one iteration of the loop of plan(): pop a node of least f_score
\* (heapq compares f_score alone), return its path when the goal test
\* passes, else close it and push its improved neighbours
AStarIterate ==
    /\ astar.pc = "search"
    /\ astar.open_set # {}
    /\ astar.iterations < ASTAR_MAX_ITERATIONS
    /\ \E current \in astar.open_set :
          /\ \A o \in astar.open_set : current.f_score <= o.f_score
          /\ IF goal_reached(current, astar.goal_cell, astar.grid_resolution)
             THEN astar' = [ astar EXCEPT
                               !.pc = "done",
                               !.iterations = @ + 1,
                               !.open_set = @ \ { current },
                               !.path = reconstruct_path(current) ]
             ELSE LET pushed == Improved(astar, current)
                      tentative_g(n) == current.g_score + astar_haversine(current.lat, current.lon, n[1], n[2])
                  IN  astar' = [ astar EXCEPT
                               !.iterations = @ + 1,
                               !.closed_set = @ \cup { <<current.lat, current.lon>> },
                               !.g_scores = [ c \in DOMAIN @ \cup pushed |->
                                                IF c \in pushed THEN tentative_g(c) ELSE @[c] ],
                               !.open_set = (@ \ { current }) \cup
                                   { AStarNode(tentative_g(n) + astar_haversine(n[1], n[2], astar.goal_cell[1], astar.goal_cell[2]),
                                               tentative_g(n), n[1], n[2], << current >>) : n \in pushed } ]
    /\ UNCHANGED not_astar_vars

\* the loop of plan() left without a path: the fallback [start, goal]
AStarFallback ==
    /\ astar.pc = "search"
    /\ astar.open_set = {} \/ astar.iterations >= ASTAR_MAX_ITERATIONS
    /\ astar' = [ astar EXCEPT !.pc = "done", !.path = << astar.start, astar.goal >>, !.fallback = TRUE ]
    /\ UNCHANGED not_astar_vars

NextAStar ==
    \/ MaritimeAStarNew
    \/ AStarPlanBegin
    \/ AStarIterate
    \/ AStarFallback

SpecAStar == Init /\ [][NextAStar]_vars

\* ---------------------------------------------------------------------
\* HTTP entry points
\* ---------------------------------------------------------------------

\* POST /calculate: HTTPException 400 for coordinates outside the domain,
\* plan_route otherwise
CalculateRoute ==
    /\ pc = "idle"
    /\ \E r \in ApiRequests, m \in RequestMonths :
          IF ~InDomain(r.start)
          THEN /\ pc' = "error"
               /\ err' = "400 Invalid start coordinates"
               /\ UNCHANGED << route_vars, rrt_vars, waypoints, planner, result,
                               dstar_vars, dstar_results, service_vars >>
          ELSE IF ~InDomain(r.goal)
          THEN /\ pc' = "error"
               /\ err' = "400 Invalid end coordinates"
               /\ UNCHANGED << route_vars, rrt_vars, waypoints, planner, result,
                               dstar_vars, dstar_results, service_vars >>
          ELSE BeginRequest(r, m)
    /\ UNCHANGED history

\* GET /explain-optimization: plan_route on the query parameters as sent
ExplainOptimization ==
    /\ pc = "idle"
    /\ \E r \in ApiRequests, m \in RequestMonths : BeginRequest(r, m)
    /\ UNCHANGED history

\* the entry points, up to the start of the planner; the steps of the
\* planner are those of Spec
NextApi ==
    \/ CalculateRoute
    \/ ExplainOptimization
    \/ PlanRouteBegin

SpecApi == Init /\ [][NextApi]_vars

C2_NoVertexOnLand ==
    pc = "done" =>
        /\ \A i \in DOMAIN waypoints : ~is_point_on_land(waypoints[i][1], waypoints[i][2])
        /\ \A i \in DOMAIN result.interpolated :
              ~is_point_on_land_q(result.interpolated[i][1], result.interpolated[i][2],
                                  result.den)

C4_LandEndpointRejected ==
    pc = "done" => (is_water(start[1], start[2]) /\ is_water(goal[1], goal[2]))

\* C5: when every planner of the chain returned fewer than 2 waypoints,
\* plan_route fails with the no-route error and returns neither a route nor
\* metrics; a returned polyline has at least 2 vertices.
C5_NoRouteFound ==
    /\ (pc \in {"done", "error"} /\ planner = "d_star" /\ Len(waypoints) < 2) =>
          (pc = "error" /\ err = "ValueError" /\ result = NoResult)
    /\ pc = "done" =>
          /\ Len(waypoints) >= 2
          /\ Len(result.interpolated) >= 2
          /\ Len(result.waypoints) >= 2

\* C5, the case reached: both planners came back without a route and the
\* request failed
C5_BothPlannersFailed ==
    /\ pc = "error"
    /\ err = "ValueError"
    /\ planner = "d_star"
    /\ waypoints = <<>>
    /\ result = NoResult

\* C6: a non-empty path returned by replan(D) has no vertex whose
\* coordinate is in D.
C6_ReplanAvoidsChanged ==
    (pc = "dstar_idle" /\ ds_caller = "replan") =>
        \A i \in DOMAIN ds_path : \A j \in DOMAIN ds_changed : ds_path[i] # ds_changed[j]

\* C7: when plan() returned a non-empty path r, a following replan([])
\* returns a non-empty path whose total edge cost is at most the cost of r.
C7_ReplanPreservation ==
    (pc = "dstar_idle" /\ ds_caller = "replan" /\ ds_calls = 2
        /\ ds_changed = <<>> /\ ds_plan_path # <<>>) =>
        (ds_path # <<>> /\ PathCost(ds_path) <= PathCost(ds_plan_path))

\* C7, the case reached: replan([]) has returned after a plan() that found
\* a path of more than one edge
C7_ReplannedAfterPlan ==
    /\ pc = "dstar_idle"
    /\ ds_caller = "replan"
    /\ ds_calls = 2
    /\ ds_changed = <<>>
    /\ Len(ds_plan_path) >= 3
    /\ ds_path # <<>>

\* C8: plan() and replan(D) return the empty path exactly when the goal's g
\* is +infinity once the shortest-path loop has stopped (the iteration
\* budget having run out included), to a caller and to plan_route alike.
C8_EmptyIffGoalUnreached ==
    /\ (pc = "dstar_idle" /\ ds_calls >= 1) =>
          ((ds_path = <<>>) <=> (ds.objs[ds.goal].g >= INF))
    /\ pc = "dstar_done" =>
          ((waypoints = <<>>) <=> (ds.objs[ds.goal].g >= INF))

\* C8, the case reached: the budget ran out when the goal had a finite rhs
\* and an infinite g, and plan() returned the empty path
C8_BudgetExhausted ==
    /\ pc = "dstar_idle"
    /\ ds_calls = 1
    /\ ds_iterations = ds.max_iterations
    /\ ds.objs[ds.goal].rhs < INF
    /\ ds.objs[ds.goal].g >= INF
    /\ ds_path = <<>>

\* C9: two runs of plan_route on the same request (same coordinates, same
\* month, planners built anew) return the same polyline.
C9_Deterministic ==
    (pc = "done" /\ prev_request = [start |-> request.start, goal |-> request.goal,
                                    month |-> current_month]) =>
        result.waypoints = prev_result.waypoints

\* C10: when the snapped start equals the snapped goal and is water,
\* plan_route ends without an error and returns the single-vertex route
\* [start] with total distance 0.
C10_StartEqualsGoal ==
    (pc \in {"done", "error"} /\ start = goal /\ is_water(start[1], start[2])) =>
        /\ pc = "done"
        /\ err = ""
        /\ result.interpolated = << start >>
        /\ result.total_distance_nm = 0

\* C11: in every state, adding a hazard zone whose multiplier is above 1
\* lowers neither the cost of a non-land cell inside the zone
\* (add_hazard_zone) nor the hazard multiplier evaluate_point_hazard gives
\* for a non-land point inside the zone (add_dynamic_hazard).
C11_AddingHazardNeverLowers ==
    /\ \A z \in HazardZoneArgs : \A c \in DOMAIN level1_cells :
          ( /\ z[4] > 1000
            /\ level1_cells[c].cell_type # "LAND"
            /\ (c[1] - z[1]) * (c[1] - z[1]) + (c[2] - z[2]) * (c[2] - z[2]) <= z[3] * z[3] )
          => add_hazard_zone(level1_cells, z)[c].cost >= level1_cells[c].cost
    /\ \A id \in DynamicIds, hazard \in DynamicZones, c \in DOMAIN level1_cells, m \in HazardMonths :
          ( /\ hazard.cost_multiplier > 1000
            /\ ~is_point_on_land(c[1], c[2])
            /\ contains_point(hazard, c[1], c[2]) )
          => evaluate_point_hazard(c[1], c[2], m, level1_cells,
                                   [dynamic_hazards EXCEPT ![id] = hazard]).cost_multiplier
               >= evaluate_point_hazard(c[1], c[2], m, level1_cells, dynamic_hazards).cost_multiplier

\* C12: at a non-land point inside an active traffic lane (multiplier below
\* 1) and inside no other hazard, the multiplier evaluate_point_hazard
\* returns is strictly below 1.
C12_TrafficLaneBelowOne ==
    \A c \in DOMAIN level1_cells, m \in HazardMonths :
        LET inside == { z \in get_all_hazards(m, dynamic_hazards) : contains_point(z, c[1], c[2]) }
            lanes == { z \in inside : z.hazard_type = "traffic_congestion"
                                       /\ z.cost_multiplier < 1000 }
        IN  ( /\ ~is_point_on_land(c[1], c[2])
              /\ lanes # {}
              /\ inside = lanes
              /\ level1_cells[c].cell_type # "SHALLOW" )
            => evaluate_point_hazard(c[1], c[2], m, level1_cells, dynamic_hazards).cost_multiplier < 1000

\* C13: every LAND cell costs +infinity, every WATER cell costs exactly 1,
\* and every SHALLOW or HAZARD cell has a finite cost above 1, except under
\* a traffic-lane overlay (multiplier below 1), where the cost is below 1.
C13_GridCostInvariant ==
    \A c \in DOMAIN level1_cells :
        /\ level1_cells[c].cell_type = "LAND" => level1_cells[c].cost = INF
        /\ level1_cells[c].cell_type = "WATER" => level1_cells[c].cost = COST_WATER
        /\ level1_cells[c].cell_type \in {"SHALLOW", "HAZARD"} =>
              IF level1_cells[c].weather_factor < 1000
              THEN level1_cells[c].cost < COST_WATER
              ELSE level1_cells[c].cost > COST_WATER /\ level1_cells[c].cost < INF

\* C20: one evaluate_route_hazards call judges all of its waypoints against
\* the same set of dynamic hazards, whatever add_dynamic_hazard and
\* remove_dynamic_hazard do meanwhile.
C20_OneViewPerEvaluation ==
    ev.pc = "done" =>
        \A i, j \in DOMAIN ev.active_dynamic : ev.active_dynamic[i] = ev.active_dynamic[j]

\* the multiplier a zone proposes for a point inside it: the zone's own at
\* the centre, else 1 + (mult - 1) * (0.5 * f), in thousandths
ProposedMultiplier(z, lat, lon) ==
    LET d2 == (lat - z.center_lat) * (lat - z.center_lat)
                + (lon - z.center_lon) * (lon - z.center_lon)
        proximity_factor == ((10 * z.radius_deg - ISqrt(d2 * 100)) * 1000) \div (10 * z.radius_deg)
    IN  IF d2 = 0 THEN z.cost_multiplier
        ELSE 1000 + TruncDiv((z.cost_multiplier - 1000) * proximity_factor, 2000)

\* the point lies strictly inside the disc of the zone
StrictlyInside(z, lat, lon) ==
    (lat - z.center_lat) * (lat - z.center_lat) + (lon - z.center_lon) * (lon - z.center_lon)
        < z.radius_deg * z.radius_deg

\* C26: for the waypoint evaluate_route_hazards evaluates next, when it is
\* not on land, every active zone that has it strictly inside its disc is
\* in the list evaluate_point_hazard returns, and the returned multiplier
\* is at least the multiplier that zone proposes.
C26_ContainingZonesTakePart ==
    ev.pc = "loop" /\ ev.index < Len(ev.waypoints) =>
        LET p == ev.waypoints[ev.index + 1]
            evaluation == evaluate_point_hazard(p[1], p[2], ev.current_month,
                                                level1_cells, dynamic_hazards)
        IN  ~is_point_on_land(p[1], p[2]) =>
                \A z \in get_all_hazards(ev.current_month, dynamic_hazards) :
                    StrictlyInside(z, p[1], p[2]) =>
                        /\ \E h \in evaluation.hazards : h[1] = z.name
                        /\ evaluation.cost_multiplier >= ProposedMultiplier(z, p[1], p[2])

\* ---------------------------------------------------------------------
\* Fuel estimates: properties
\* ---------------------------------------------------------------------

\* the estimate for container-10000 over 5000 nm at its design speed
C15_Case ==
    /\ voyage.vessel_type = "container_10000"
    /\ voyage.distance_nm = 500000
    /\ voyage.avg_speed_knots = 19

\* the same voyage at 10 knots
C15_Slow ==
    estimate_voyage_fuel("container_10000", 500000, 10,
                         voyage.weather_factor, voyage.load_factor)

\* C15 as stated: for container-10000, 5000 nm, equal load and weather
\* factors, total_fuel(19 kt) / total_fuel(10 kt) lies between 4.5 and 8.0.
C15_TotalFuelRatio ==
    C15_Case =>
        /\ 45 * C15_Slow.total_fuel_tons <= 10 * voyage.total_fuel_tons
        /\ 10 * voyage.total_fuel_tons <= 80 * C15_Slow.total_fuel_tons

\* C15 amended: for container-10000, 5000 nm, equal load and weather
\* factors, the daily consumption at 19 kt is between 4.5 and 8.0 times the
\* daily consumption at 10 kt (the cube of 1.9), and the total fuel of the
\* voyage, which lasts 10/19 as long, is between 3.5 and 3.7 times the total
\* at 10 kt (the square of 1.9).
C15_SpeedSensitivity ==
    C15_Case =>
        /\ 45 * C15_Slow.daily_consumption_tons <= 10 * voyage.daily_consumption_tons
        /\ 10 * voyage.daily_consumption_tons <= 80 * C15_Slow.daily_consumption_tons
        /\ 350 * C15_Slow.total_fuel_tons <= 100 * voyage.total_fuel_tons
        /\ 100 * voyage.total_fuel_tons <= 370 * C15_Slow.total_fuel_tons

C15_Witness ==
    /\ C15_Case
    /\ voyage.total_fuel_tons > 0
    /\ C15_Slow.total_fuel_tons > 0

\* C16: every voyage estimate over a distance greater than 0 has total
\* fuel, total CO2 and voyage time all strictly greater than 0.
C16_PositiveVoyageMetrics ==
    voyage.distance_nm > 0 =>
        /\ voyage.total_fuel_tons > 0
        /\ voyage.total_co2_tons > 0
        /\ voyage.estimated_time_hours > 0

\* ---------------------------------------------------------------------
\* Land oracle: properties
\* ---------------------------------------------------------------------

\* the point (latN / den, lonN / den) lies on the segment from p1 to p2
OnSegment(latN, lonN, den, p1, p2) ==
    /\ (latN - den * p1[1]) * (p2[2] - p1[2]) = (lonN - den * p1[2]) * (p2[1] - p1[1])
    /\ latN >= den * Min(p1[1], p2[1])
    /\ latN <= den * Max(p1[1], p2[1])
    /\ lonN >= den * Min(p1[2], p2[2])
    /\ lonN <= den * Max(p1[2], p2[2])

\* the point asked about lies on an edge of a land polygon
C14_OnPolygonEdge ==
    /\ land_query.asked
    /\ \E r \in DOMAIN LAND_POLYGONS :
          \E i \in 1..(Len(LAND_POLYGONS[r]) - 1) :
              OnSegment(land_query.lat, land_query.lon, land_query.den,
                        LAND_POLYGONS[r][i], LAND_POLYGONS[r][i + 1])

\* C14: for every point lying exactly on an edge of a land polygon, on any
\* side of the polygon, is_point_on_land reports land.
C14_EdgePointsAreLand ==
    C14_OnPolygonEdge => land_query.on_land

\* ---------------------------------------------------------------------
\* Weather service: properties
\* ---------------------------------------------------------------------

\* the "source" of the samples of self.providers, in list order
PROVIDER_SOURCES == << "NOAA_GFS", "OpenWeatherMap" >>

\* C17: get_weather_point tries the providers in list order and returns
\* the sample of the first provider that yields one; when every provider
\* returns nothing or fails, it returns the synthetic sample, never an
\* error or an empty result.
C17_FirstSampleOrSynthetic ==
    weather_call.asked =>
        LET returned == weather_call.returned
            last == Len(returned)
            unplaced(w) == [ w EXCEPT !.latitude = 0, !.longitude = 0 ]
        IN  /\ weather_call.weather # NoSample
            /\ weather_call.weather.latitude = weather_call.lat
            /\ weather_call.weather.longitude = weather_call.lon
            /\ last \in 1..Len(PROVIDER_SOURCES)
            /\ \A i \in 1..(last - 1) : returned[i] = NoSample
            /\ IF returned[last] # NoSample
               THEN /\ returned[last].source = PROVIDER_SOURCES[last]
                    /\ unplaced(weather_call.weather) = unplaced(returned[last])
               ELSE /\ last = Len(PROVIDER_SOURCES)
                    /\ weather_call.weather.source = "MOCK"

\* every provider failed and the synthetic sample came back
C17_SyntheticReturned ==
    /\ weather_call.asked
    /\ weather_call.returned = << NoSample, NoSample >>
    /\ weather_call.weather.source = "MOCK"

\* C18: a cache entry that is not replaced (same insertion time) keeps
\* every field of its sample, whatever call is made.
C18_CacheEntryImmutable ==
    [][ \A p \in DOMAIN weather_cache : \A k \in WeatherKeys :
          ( /\ weather_cache[p][k].cached_time >= 0
            /\ weather_cache'[p][k].cached_time = weather_cache[p][k].cached_time )
          => weather_cache'[p][k].data = weather_cache[p][k].data ]_vars


\* C30: a sample that get_weather_point takes from a provider's cache was
\* fetched for the forecast_hours of the call that gets it.
C30_CachedSampleMatchesForecastHour ==
    weather_call.asked =>
        \A fetched_for \in weather_call.cached_for : fetched_for = weather_call.forecast_hours

\* a call for the day ahead was given the cached sample of a call for now
C30_StaleForecastServed ==
    /\ weather_call.asked
    /\ weather_call.forecast_hours = 24
    /\ weather_call.cached_for = { 0 }
\* ---------------------------------------------------------------------
\* HTTP entry points: properties
\* ---------------------------------------------------------------------

\* C19: every entry point rejects a start or goal outside lat [-90, 90],
\* lon [-180, 180] before plan_route runs: the request that plan_route
\* snaps and plans for is never outside the domain.
C19_PlannedRequestInDomain ==
    request # NoRequest => InDomain(request.start) /\ InDomain(request.goal)

\* C29: an endpoint that plan_route replaced by the pinned offshore
\* coordinate of a port (Mumbai, Chennai, Kolkata) is water under the land
\* polygons when it is handed to the planners.
C29_PinnedEndpointsAreWater ==
    request # NoRequest =>
        /\ PinPort(request.start, 1) # request.start => ~is_point_on_land(start[1], start[2])
        /\ PinPort(request.goal, 1) # request.goal => ~is_point_on_land(goal[1], goal[2])

\* ---------------------------------------------------------------------
\* GridCache: properties
\* ---------------------------------------------------------------------

\* C21: since the last clear_cache at most one Level-1 OceanGrid has been
\* constructed, and every request that was handed a grid or a hazard
\* service, and the cached hazard service itself, holds the grid that the
\* cache holds.
C21_OneGridInstance ==
    /\ grids_built <= 1
    /\ grid_cache.hazard_service # 0 => grid_cache.hazard_service = grid_cache.grid_level1
    /\ \A t \in GridCallers :
          /\ callers[t].pc = "idle" /\ callers[t].grid # 0
                => callers[t].grid = grid_cache.grid_level1
          /\ callers[t].pc = "idle" /\ callers[t].service # 0
                => callers[t].service = grid_cache.grid_level1

\* ---------------------------------------------------------------------
\* Incremental planner (DStar): properties
\* ---------------------------------------------------------------------

\* the shortest-path loop stands at its head, or plan() / replan() has
\* returned
AtLoopHeadOrReturned ==
    \/ pc = "dstar"
    \/ pc = "dstar_done"
    \/ pc = "dstar_idle" /\ ds_calls >= 1

\* the node object is an element of open_list, once
OpenListHolds(d, id) == Cardinality({ i \in DOMAIN d.open : d.open[i] = id }) = 1

\* C22: at every loop head of _compute_shortest_path and on return from
\* plan / replan, a node is in open_list if and only if its g differs from
\* its rhs.
C22_OpenIffInconsistent ==
    AtLoopHeadOrReturned =>
        /\ \A i \in DOMAIN ds.open : ds.open[i] \in DOMAIN ds.objs
        /\ \A id \in DOMAIN ds.objs :
              (\E i \in DOMAIN ds.open : ds.open[i] = id) <=> ds.objs[id].g # ds.objs[id].rhs
        /\ \A id \in DOMAIN ds.objs : ds.objs[id].g # ds.objs[id].rhs => OpenListHolds(ds, id)

\* a replan() stands at the loop head with several nodes queued and a
\* settled node outside the queue
C22_QueuedAndSettled ==
    /\ pc = "dstar"
    /\ ds_caller = "replan"
    /\ Len(ds.open) >= 2
    /\ \E id \in DOMAIN ds.objs :
          /\ ds.objs[id].g = ds.objs[id].rhs
          /\ ds.objs[id].g < INF
          /\ \A i \in DOMAIN ds.open : ds.open[i] # id

\* q follows p in the lattice the planner has generated: q is one step from
\* p in one of the 8 directions and passes the tests of _get_neighbors (a
\* node that _get_neighbors created has passed them)
Follows(d, p, q) ==
    /\ \E i \in 1..8 : q = << p[1] + DIRECTIONS[i][1] * d.step_size_deg,
                              p[2] + DIRECTIONS[i][2] * d.step_size_deg >>
    /\ d.nodes[q][1] = 2 \/ NeighborValid(q)

\* cheapest cost from the start to every generated position, by relaxing
\* every step of the lattice rounds times (edge cost = planar distance)
RECURSIVE CheapestCosts(_, _, _)
CheapestCosts(d, dist, rounds) ==
    LET via(q) == { Add(dist[p], PlanarDist(q[1] - p[1], q[2] - p[2])) :
                      p \in { r \in DOMAIN d.nodes : dist[r] < INF /\ Follows(d, r, q) } }
        least(q) == IF via(q) = {} THEN INF
                    ELSE CHOOSE c \in via(q) : \A e \in via(q) : c <= e
        next == [ q \in DOMAIN d.nodes |-> Min(dist[q], least(q)) ]
    IN  IF rounds = 0 \/ next = dist THEN dist
        ELSE CheapestCosts(d, next, rounds - 1)

CheapestCost(d, target) ==
    LET dist0 == [ p \in DOMAIN d.nodes |-> IF p = NodePos(d.start) THEN 0 ELSE INF ]
    IN  CheapestCosts(d, dist0, Cardinality(DOMAIN d.nodes))[target]

\* the loop of _compute_shortest_path has stopped with iterations to spare
\* and a finite goal.g
StoppedEarlyAtGoal ==
    /\ pc = "dstar"
    /\ ~LoopCondition(ds, ds_iterations)
    /\ ds_iterations < ds.max_iterations
    /\ ds.objs[ds.goal].g < INF

\* C23: when _compute_shortest_path stops before max_iterations with a
\* finite goal.g, goal.g is the cost of a cheapest path from the start to
\* the goal over the generated non-land lattice nodes.
C23_GoalCostIsCheapest ==
    StoppedEarlyAtGoal => ds.objs[ds.goal].g = CheapestCost(ds, NodePos(ds.goal))

\* the loop has stopped early at a goal two diagonal steps from the start
C23_StoppedAtDiagonalGoal ==
    /\ StoppedEarlyAtGoal
    /\ ds.objs[ds.goal].g = 2 * PlanarDist(ds.step_size_deg, ds.step_size_deg)

\* consecutive vertices one lattice step apart in one of the 8 directions
LatticeNeighbours(p, q, step) ==
    /\ Abs(q[1] - p[1]) \in {0, step}
    /\ Abs(q[2] - p[2]) \in {0, step}
    /\ p # q

\* a path from the start to the goal of d by single lattice steps
WellFormedPath(d, path) ==
    /\ path[1] = NodePos(d.start)
    /\ path[Len(path)] = NodePos(d.goal)
    /\ \A i \in 1..(Len(path) - 1) : LatticeNeighbours(path[i], path[i + 1], d.step_size_deg)

\* C24: every non-empty path returned by plan() or replan() runs from the
\* start to the goal, each vertex one lattice step (8 directions) from the
\* next.
C24_PathWellFormed ==
    /\ pc = "dstar_idle" /\ ds_calls >= 1 /\ ds_path # <<>> => WellFormedPath(ds, ds_path)
    /\ pc = "dstar_done" /\ waypoints # <<>> => WellFormedPath(ds, waypoints)

\* the path that plan() or replan() has just returned (<<>>: none)
ReturnedPath ==
    IF pc = "dstar_done" THEN waypoints
    ELSE IF pc = "dstar_idle" /\ ds_calls >= 1 THEN ds_path
    ELSE <<>>

\* the neighbours of the node at current that tie for the least finite
\* g + cost, as positions
PredecessorTies(d, current) ==
    LET id == d.nodes[current]
        d2 == AfterNeighbors(d, id)
        ns == get_neighbors(d, id)
        c(i) == Add(d2.objs[ns[i]].g, get_edge_cost(d2.objs[ns[i]], d2.objs[id]))
    IN  { NodePos(ns[i]) : i \in { j \in DOMAIN ns : c(j) < INF /\ \A k \in DOMAIN ns : c(j) <= c(k) } }

\* the pairs <<chosen predecessor, current>> of the extraction that gave
\* path: every vertex but the first was reached by a choice; the first was
\* chosen unless the walk broke off or ran into the cap
PredecessorChoices(d, path) ==
    { << path[i], path[i + 1] >> : i \in 2..(Len(path) - 1) }
    \cup (IF Len(path) >= 2 /\ Len(path) <= PATH_CAP /\ PredecessorTies(d, path[2]) # {}
          THEN { << path[1], path[2] >> } ELSE {})

\* place of the step from current to neighbour in the order N, E, S, W,
\* then the diagonals
CardinalFirstRank(current, neighbour) ==
    IF neighbour[1] > current[1] /\ neighbour[2] = current[2] THEN 1
    ELSE IF neighbour[1] = current[1] /\ neighbour[2] > current[2] THEN 2
    ELSE IF neighbour[1] < current[1] /\ neighbour[2] = current[2] THEN 3
    ELSE IF neighbour[1] = current[1] /\ neighbour[2] < current[2] THEN 4
    ELSE 5

\* place of the step from current to neighbour in the directions list of
\* _get_neighbors
DirectionIndex(d, current, neighbour) ==
    CHOOSE i \in 1..8 : neighbour = << current[1] + DIRECTIONS[i][1] * d.step_size_deg,
                                        current[2] + DIRECTIONS[i][2] * d.step_size_deg >>

\* C25 as stated: among the neighbours that tie for the least g + cost, the
\* predecessor chosen is the first in the order N, E, S, W, then diagonals.
C25_CardinalFirst ==
    \A ch \in PredecessorChoices(ds, ReturnedPath) :
        \A t \in PredecessorTies(ds, ch[2]) :
            CardinalFirstRank(ch[2], ch[1]) <= CardinalFirstRank(ch[2], t)

\* C25, amended: among the neighbours that tie for the least g + cost, the
\* predecessor chosen is the first in the order of the directions list of
\* _get_neighbors: SW, S, SE, W, E, NW, N, NE.
C25_FirstInDirectionsOrder ==
    \A ch \in PredecessorChoices(ds, ReturnedPath) :
        /\ ch[1] \in PredecessorTies(ds, ch[2])
        /\ \A t \in PredecessorTies(ds, ch[2]) :
              DirectionIndex(ds, ch[2], ch[1]) <= DirectionIndex(ds, ch[2], t)

\* a path has been returned in whose extraction several neighbours tied
C25_TieResolved ==
    \E ch \in PredecessorChoices(ds, ReturnedPath) :
        Cardinality(PredecessorTies(ds, ch[2])) >= 2

\* ---------------------------------------------------------------------
\* Sampling planner (HybridBidirectionalRRTStar): properties
\* ---------------------------------------------------------------------

\* C27: a recorded connection joins two nodes at one position (the
\* extension of the other tree has reached the new node), and every segment
\* of the path the planner returns is at most one step long.
C27_ConnectionAtMeetingNode ==
    /\ pc \in {"rrt", "rrt_done"} /\ connection_point # <<>>
          => Pos(connection_point[1]) = Pos(connection_point[2])
    /\ pc = "rrt_done"
          => \A i \in 1..(Len(waypoints) - 1) :
                D2(waypoints[i], waypoints[i + 1]) <= step_size_nm * step_size_nm

\* ---------------------------------------------------------------------
\* MaritimeAStar: completeness
\* ---------------------------------------------------------------------

\* the water cells joined to `from` by neighbour-to-neighbour moves
RECURSIVE WaterReach(_, _, _)
WaterReach(reached, res, water_cells) ==
    LET more == UNION { get_water_neighbors(c[1], c[2], res, water_cells) : c \in reached } \ reached
    IN  IF more = {} THEN reached ELSE WaterReach(reached \cup more, res, water_cells)

\* the water-cell set holds an 8-connected path from the snapped start
\* cell to the snapped goal cell
WaterPathExists(a) ==
    /\ a.start_cell \in a.water_cells
    /\ a.goal_cell \in WaterReach({ a.start_cell }, a.grid_resolution, a.water_cells)

\* path runs from the snapped start cell to the snapped goal cell over
\* water cells, each the neighbour of the one before
IsWaterPath(a, path) ==
    /\ Len(path) >= 1
    /\ path[1] = a.start_cell
    /\ path[Len(path)] = a.goal_cell
    /\ \A i \in 1..Len(path) : path[i] \in a.water_cells
    /\ \A i \in 1..(Len(path) - 1) :
          path[i + 1] \in get_water_neighbors(path[i][1], path[i][2], a.grid_resolution, a.water_cells)

\* C28: when plan() has returned, a water-cell set that joins the snapped
\* start cell to the snapped goal cell by neighbour moves means the path
\* returned is such a path, and the fallback [start, goal] is returned only
\* when the water-cell set does not join them
C28_PlanIsComplete ==
    astar.pc = "done" =>
        /\ WaterPathExists(astar) => (~astar.fallback /\ IsWaterPath(astar, astar.path))
        /\ astar.fallback => ~WaterPathExists(astar)

\* plan() has returned a path that ends one cell short of the snapped goal
\* cell, which the water-cell set joins to the start cell
C28_StoppedShortOfGoal ==
    /\ astar.pc = "done"
    /\ WaterPathExists(astar)
    /\ ~astar.fallback
    /\ astar.path[Len(astar.path)] # astar.goal_cell

====
